---- MODULE Spec2Model ----
(***************************************************************************)
(* mavlink-msp-bridge: the slot scheduler (src/src/scheduler.rs), the MSP  *)
(* frame and payload codec (src/src/msp.rs) and the dispatch loop          *)
(* (src/src/core.rs, src/src/mavlink.rs, src/src/main.rs).                 *)
(*                                                                         *)
(* The specifications share the variables:                                 *)
(*   SchedSpec    calls of Schedule::insert / Schedule::delete             *)
(*   PayloadSpec  MspPayload::encode / MspPayload::decode of the registry  *)
(*   CodecSpec    MspMessage::encode / MspMessage::decode on a byte stream *)
(*   Spec         event_loop under main's restart loop                     *)
(*   ScenarioSpec event_loop on its 50 slots, handling MESSAGE_INTERVAL    *)
(*   PackSpec     distinct tasks inserted into schedules that start empty  *)
(*   NextSpec     Schedule::next against the clock                         *)
(*   AdapterSpec  WrappedMAVConnection: worker, channel, recv_timeout, send *)
(*   DispatchSpec event_loop with a short list of inbound results          *)
(* Each specification leaves the variables of the others at their idle     *)
(* values.                                                                 *)
(***************************************************************************)
EXTENDS Integers, Sequences, FiniteSets, TLC

VARIABLES
    time,       \* Schedule.time: slot index -> Option<T>
    call,       \* the last call made on the schedule and what it returned
    ptype,      \* the payload type P (a name of the registry)
    porig,      \* the value or the bytes a payload round trip started from
    pval,       \* Option: the payload value at hand
    pbytes,     \* Option: the buffer written by MspPayload::encode
    pdone,      \* number of encode / decode calls made
    cframe,     \* the MspMessage<P> handed to encode
    wire,       \* the bytes of the stream decode reads from
    noise,      \* what happened to the stream after encode wrote the frame
    cpc,        \* "frame", "encoded" or "decoded"
    cres,       \* what decode returned
    pc,         \* where main / event_loop stands
    last_frame, \* the schedule's last consumed minor frame, modulo its size
    behind,     \* minor frames elapsed since last_frame
    chan,       \* the mpsc channel from the receive worker to the loop
    workers,    \* receive worker threads spawned so far
    iter,       \* what the last iteration of the loop did
    yielded,    \* per consumed minor frame, what Schedule::next found in its slot
    conf,       \* Option: the Config the connection was made for
    obtained,   \* the results mavconn.recv() returned to the receive worker
    delivered   \* the results recv_timeout handed to its caller

schedVars == <<time, call>>
payloadVars == <<porig, pval, pbytes, pdone>>
codecVars == <<cframe, wire, noise, cpc, cres>>
loopVars == <<pc, last_frame, behind, chan, workers, iter>>
nextVars == <<yielded>>
adapterVars == <<conf, obtained, delivered>>

vars == <<time, call, ptype, porig, pval, pbytes, pdone, cframe, wire, noise, cpc, cres,
          pc, last_frame, behind, chan, workers, iter, yielded, conf, obtained,
          delivered>>

(***************************************************************************)
(* Option<T>                                                               *)
(***************************************************************************)
None == <<>>
Some(x) == <<x>>
IsSome(o) == o # None
Unwrap(o) == o[1]

(***************************************************************************)
(* Bounds of the model                                                     *)
(***************************************************************************)
\* size passed to Schedule::new in SchedSpec (the tests use 10 and 200)
SchedSize == 4

(***************************************************************************)
(* MAVLink message ids that serve as tasks (src/src/core.rs)               *)
(***************************************************************************)
HeartbeatId == 0
AttitudeId == 30

\* the tasks inserted in SchedSpec
SchedTasks == {HeartbeatId, AttitudeId}
\* frequencies offered to insert: 0 (removal), fitting ones, more than the
\* number of slots, and from twice the number of slots on
SchedFreqs == 0..(2 * SchedSize + 1)

(***************************************************************************)
(* f64 helpers.  All operands of the scheduler's float arithmetic are      *)
(* small non-negative rationals a / b; f64::round rounds half away from    *)
(* zero.                                                                   *)
(***************************************************************************)
\* (a as f64 / b as f64).round() for a >= 0, b > 0
RoundDiv(a, b) == (2 * a + b) \div (2 * b)

\* (a as f64 / b as f64) as u32 for a >= 0, b > 0: the cast truncates
TruncDiv(a, b) == a \div b

(***************************************************************************)
(* Schedule (src/src/scheduler.rs)                                         *)
(***************************************************************************)
\* self.time.len()
SLen(t) == Cardinality(DOMAIN t)

\* Schedule::new(size): every slot None
ScheduleNew(size) == [j \in 0..(size - 1) |-> None]

\* Schedule::count
count(t, task) == Cardinality({j \in DOMAIN t : t[j] = Some(task)})

\* a delete that stops at the first slot it clears
deleteFirst(t, task) ==
    [j \in DOMAIN t |->
        IF t[j] = Some(task) /\ (\A k \in DOMAIN t : t[k] = Some(task) => j <= k)
        THEN None ELSE t[j]]

\* Schedule::delete
delete(t, task) == [j \in DOMAIN t |-> IF t[j] = Some(task) THEN None ELSE t[j]]

\* frame_count = (duration.as_secs_f64() * frequency as f64).round(), duration 1 s
FrameCount(frequency) == frequency

\* the index taken with an interval of whole slots: i * (len / frequency)
PatternIndexWholeInterval(len, frequency, i) == i * (len \div frequency)

\* index = (i as f64 * interval).round() with interval = len / frequency / 1.0
PatternIndex(len, frequency, i) == RoundDiv(i * len, frequency)

\* new_schedule[index] = 1 indexes past the end of the vector for some i
PatternOutOfBounds(len, frequency) ==
    \E i \in 0..(FrameCount(frequency) - 1) : PatternIndex(len, frequency, i) >= len

\* new_schedule after the pattern loop (when no index is out of bounds)
NewSchedule(len, frequency) ==
    LET written == {PatternIndex(len, frequency, i) : i \in 0..(FrameCount(frequency) - 1)}
    IN  [j \in 0..(len - 1) |-> IF j \in written THEN 1 ELSE 0]

\* time_use: 1 for an occupied slot
TimeUse(t) == [j \in DOMAIN t |-> IF t[j] = None THEN 0 ELSE 1]

\* the least element of a non-empty set of integers
Least(S) == CHOOSE x \in S : \A y \in S : x <= y

\* a mis-rotated collision test: the pattern is rotated the other way round
\* than the commit rotates it
CollisionRotatedBack(use, pattern, i) ==
    LET len == Cardinality(DOMAIN use)
    IN  Cardinality({j \in DOMAIN use : use[j] * pattern[(j + len - i) % len] = 1})

\* sum of time_use.zip(new_schedule.cycle().skip(i)).map(a.0 * a.1): both
\* vectors hold 0 or 1, the sum is the number of products equal to 1
Collision(use, pattern, i) ==
    LET len == Cardinality(DOMAIN use)
    IN  Cardinality({j \in DOMAIN use : use[j] * pattern[(j + i) % len] = 1})

\* a scan that tries the unrotated pattern only
ScanUnrotated(use, pattern, i, min, tau) ==
    LET sum == Collision(use, pattern, 0)
    IN  IF sum < min THEN [min |-> sum, tau |-> 0] ELSE [min |-> min, tau |-> tau]

\* the loop `for i in 0..self.time.len()` from index i on, entered with min
\* and tau: it visits the indices up to the first sum of 0 (where it
\* breaks) and keeps the first index of the least sum below min; min
\* starts at usize::max_value(), which the caller passes as len + 1 (every
\* sum is at most len)
Scan(use, pattern, i, min, tau) ==
    LET len == Cardinality(DOMAIN use)
        sums == [k \in i..(len - 1) |-> Collision(use, pattern, k)]
        zeros == {k \in DOMAIN sums : sums[k] = 0}
        visited == IF zeros = {} THEN DOMAIN sums ELSE i..Least(zeros)
        best == Least({sums[k] : k \in visited})
    IN  IF visited = {} \/ best >= min THEN [min |-> min, tau |-> tau]
        ELSE [min |-> best, tau |-> Least({k \in visited : sums[k] = best})]

\* a commit that rotates the pattern the other way round than the scan
CommitRotatedBack(t, pattern, tau, i, task) ==
    LET len == SLen(t)
        hits == {j \in DOMAIN t : j >= i /\ pattern[(j + len - tau) % len] = 1}
        failing == {j \in hits : t[j] # None}
        stored == IF failing = {} THEN hits ELSE {j \in hits : j < Least(failing)}
    IN  [ok |-> failing = {},
         time |-> [j \in DOMAIN t |-> IF j \in stored THEN Some(task) ELSE t[j]]]

\* the commit loop over new_schedule.cycle().skip(tau).enumerate().take(len)
\* from slot i on: slot j receives the task when
\* new_schedule[(j + tau) % len] = 1; the assert! on an occupied slot stops
\* the loop with the earlier stores kept
Commit(t, pattern, tau, i, task) ==
    LET hits == {j \in DOMAIN t : j >= i /\ pattern[(j + tau) % SLen(t)] = 1}
        failing == {j \in hits : t[j] # None}
        stored == IF failing = {} THEN hits ELSE {j \in hits : j < Least(failing)}
    IN  [ok |-> failing = {},
         time |-> [j \in DOMAIN t |-> IF j \in stored THEN Some(task) ELSE t[j]]]

\* an insert that first removes the task's old slots and then places it
insertDeleteFirst(t, frequency, task) ==
    IF frequency = 0 THEN [result |-> "Ok", time |-> delete(t, task)]
    ELSE IF PatternOutOfBounds(SLen(t), frequency)
         THEN [result |-> "IndexPanic", time |-> t]
         ELSE LET cleared == delete(t, task)
                  pattern == NewSchedule(SLen(t), frequency)
                  scan == Scan(TimeUse(cleared), pattern, 0, SLen(t) + 1, 0)
              IN  IF scan.min = 0
                  THEN LET c == Commit(cleared, pattern, scan.tau, 0, task)
                       IN  [result |-> IF c.ok THEN "Ok" ELSE "AssertPanic",
                            time |-> c.time]
                  ELSE [result |-> "Conflict", time |-> cleared]

\* Schedule::insert: what it returns (Ok, Conflict, or the panic it raises)
\* and the slots afterwards
insert(t, frequency, task) ==
    IF frequency = 0 THEN [result |-> "Ok", time |-> delete(t, task)]
    ELSE IF PatternOutOfBounds(SLen(t), frequency)
         THEN [result |-> "IndexPanic", time |-> t]
         ELSE LET pattern == NewSchedule(SLen(t), frequency)
                  scan == Scan(TimeUse(t), pattern, 0, SLen(t) + 1, 0)
              IN  IF scan.min = 0
                  THEN LET c == Commit(t, pattern, scan.tau, 0, task)
                       IN  [result |-> IF c.ok THEN "Ok" ELSE "AssertPanic",
                            time |-> c.time]
                  ELSE [result |-> "Conflict", time |-> t]

(***************************************************************************)
(* Idle values of each group of variables                                  *)
(***************************************************************************)
SchedIdle ==
    /\ time = <<>>
    /\ call = [op |-> "new", frequency |-> 0, task |-> 0, result |-> "Ok"]

TypeIdle == ptype = ""

PayloadIdle ==
    /\ porig = <<>>
    /\ pval = None
    /\ pbytes = None
    /\ pdone = 0

CodecIdle ==
    /\ cframe = <<>>
    /\ wire = <<>>
    /\ noise = [kind |-> "none"]
    /\ cpc = "idle"
    /\ cres = None

LoopIdle ==
    /\ pc = "idle"
    /\ last_frame = 0
    /\ behind = 0
    /\ chan = <<>>
    /\ workers = 0
    /\ iter = [kind |-> "none"]

NextIdle == yielded = <<>>
AdapterIdle == conf = None /\ obtained = <<>> /\ delivered = <<>>

(***************************************************************************)
(* SchedSpec: a caller that inserts and deletes on one Schedule            *)
(***************************************************************************)
NoCall == [op |-> "new", frequency |-> 0, task |-> 0, result |-> "Ok"]

SchedInit ==
    /\ time = ScheduleNew(SchedSize)
    /\ call = NoCall
    /\ TypeIdle /\ PayloadIdle /\ CodecIdle /\ LoopIdle /\ NextIdle /\ AdapterIdle

SchedInsert(frequency, task) ==
    LET r == insert(time, frequency, task)
    IN  /\ time' = r.time
        /\ call' = [op |-> "insert", frequency |-> frequency, task |-> task,
                    result |-> r.result]
        /\ UNCHANGED <<ptype, payloadVars, codecVars, loopVars, nextVars, adapterVars>>

SchedDelete(task) ==
    /\ time' = delete(time, task)
    /\ call' = [op |-> "delete", frequency |-> 0, task |-> task, result |-> "Ok"]
    /\ UNCHANGED <<ptype, payloadVars, codecVars, loopVars, nextVars, adapterVars>>

SchedNext ==
    \/ \E frequency \in SchedFreqs, task \in SchedTasks : SchedInsert(frequency, task)
    \/ \E task \in SchedTasks : SchedDelete(task)

SchedSpec == SchedInit /\ [][SchedNext]_vars

(***************************************************************************)
(* Scheduler claims                                                        *)
(***************************************************************************)
\* C1: whenever insert(f, task) with f >= 1 returns Ok, count(task) right
\* afterwards equals f -- in every state, also when the task was already
\* scheduled and when f exceeds the number of slots.
C1_CountEqualsFrequency ==
    (call.op = "insert" /\ call.frequency >= 1 /\ call.result = "Ok")
        => count(time, call.task) = call.frequency

\* C2: an insert that fails with Conflict leaves every slot as it was, and
\* a dispatch loop that made the call goes on running.
C2_ConflictKeepsSchedule ==
    [][(call'.op = "insert" /\ call'.result = "Conflict")
        => (time' = time /\ (pc = "loop" => pc' = "loop"))]_vars

\* a Conflict was returned for a task that holds slots of a schedule
C2_Witness ==
    /\ call.op = "insert"
    /\ call.result = "Conflict"
    /\ count(time, call.task) > 0

\* C3: insert never stores into an occupied slot: the commit-time assertion
\* never fails, an occupied slot keeps its task (or, for frequency 0, loses
\* the inserted task), and every other task keeps exactly its slots.
C3_InsertDisjoint ==
    [][call'.op = "insert" =>
        /\ call'.result # "AssertPanic"
        /\ \A j \in DOMAIN time :
              time[j] # None =>
                \/ time'[j] = time[j]
                \/ call'.frequency = 0 /\ time[j] = Some(call'.task) /\ time'[j] = None
        /\ \A j \in DOMAIN time :
              (time[j] # Some(call'.task) /\ time[j] # None) <=>
              (time'[j] # Some(call'.task) /\ time'[j] # None)
      ]_vars

\* a task was placed next to another task's slots
C3_Witness ==
    /\ call.op = "insert"
    /\ call.frequency >= 1
    /\ call.result = "Ok"
    /\ \E other \in SchedTasks : other # call.task /\ count(time, other) > 0

(***************************************************************************)
(* Typed payloads (src/src/msp.rs, msp_codec! and the msp_payload!         *)
(* registry).  A byte is 0..255.  A one- or two-byte scalar is its numeric *)
(* value; a four-byte scalar is the record [hi, lo] of its 16-bit halves,  *)
(* value = hi * 65536 + lo with hi signed for i32.                         *)
(***************************************************************************)
U8 == [size |-> 1, signed |-> FALSE]
U16 == [size |-> 2, signed |-> FALSE]
I16 == [size |-> 2, signed |-> TRUE]
U32 == [size |-> 4, signed |-> FALSE]
I32 == [size |-> 4, signed |-> TRUE]

\* [$type; $size]
Array(ty, n) == [k \in 1..n |-> ty]

\* msp_payload! { ... }: name -> ID and field types in declaration order
Registry ==
    [ MspIdent       |-> [id |-> 100, fields |-> <<U8, U8, U8, U32>>],
      MspStatus      |-> [id |-> 101, fields |-> <<U16, U16, U16, U32, U8>>],
      MspRawImu      |-> [id |-> 102, fields |-> Array(I16, 9)],
      MspServo       |-> [id |-> 103, fields |-> Array(U16, 16)],
      MspMotor       |-> [id |-> 104, fields |-> Array(U16, 16)],
      MspSetMotor    |-> [id |-> 214, fields |-> Array(U16, 16)],
      MspRc          |-> [id |-> 105, fields |-> Array(U16, 16)],
      MspSetRawRc    |-> [id |-> 200, fields |-> Array(U16, 16)],
      MspRawGps      |-> [id |-> 106, fields |-> <<U8, U8, I32, I32, U16, U16, U16>>],
      MspSetRawGps   |-> [id |-> 201, fields |-> <<U8, U8, I32, I32, U16, U16>>],
      MspCompGps     |-> [id |-> 107, fields |-> <<U16, I16, U8>>],
      MspAttitude    |-> [id |-> 108, fields |-> <<I16, I16, I16>>],
      MspAltitude    |-> [id |-> 109, fields |-> <<I32, I16>>],
      MspAnalog      |-> [id |-> 110, fields |-> <<U8, U16, U16, U16>>],
      MspRcTuning    |-> [id |-> 111, fields |-> Array(U8, 7)],
      MspSetRcTuning |-> [id |-> 204, fields |-> Array(U8, 7)],
      MspMotorPins   |-> [id |-> 115, fields |-> Array(U8, 8)],
      MspWp          |-> [id |-> 118, fields |-> <<U8, I32, I32, U32, I16, U16, U8>>],
      MspSetWp       |-> [id |-> 209, fields |-> <<U8, I32, I32, U32, I16, U16, U8>>],
      MspSetHead     |-> [id |-> 211, fields |-> <<I16>>] ]

PayloadNames == DOMAIN Registry

RECURSIVE SizeUpTo(_, _)
\* size_of of the first k fields: the running offset i of the macro
SizeUpTo(fields, k) == IF k = 0 THEN 0 ELSE fields[k].size + SizeUpTo(fields, k - 1)

\* MspPayload::SIZE
SIZE(name) == SizeUpTo(Registry[name].fields, Len(Registry[name].fields))

\* MspPayload::ID
ID(name) == Registry[name].id

\* 2^(8 * size - 1) and 2^(8 * size) for the one- and two-byte scalars
HalfRange(size) == IF size = 1 THEN 128 ELSE 32768
FullRange(size) == IF size = 1 THEN 256 ELSE 65536

\* <$type>::from_le_bytes(buf[i-size..i])
FromLe(b, ty) ==
    LET wrap(u, size) == IF ty.signed /\ u >= HalfRange(size) THEN u - FullRange(size) ELSE u
    IN  IF ty.size = 1 THEN wrap(b[1], 1)
        ELSE IF ty.size = 2 THEN wrap(b[1] + 256 * b[2], 2)
        ELSE [lo |-> b[1] + 256 * b[2], hi |-> wrap(b[3] + 256 * b[4], 2)]

\* a big-endian to_le_bytes
ToBe(v, ty) ==
    IF ty.size = 1 THEN << v % 256 >>
    ELSE IF ty.size = 2 THEN << (v % 65536) \div 256, (v % 65536) % 256 >>
    ELSE << (v.hi % 65536) \div 256, (v.hi % 65536) % 256, v.lo \div 256, v.lo % 256 >>

\* self.$field_name.to_le_bytes()
ToLe(v, ty) ==
    IF ty.size = 1 THEN << v % 256 >>
    ELSE IF ty.size = 2 THEN << (v % 65536) % 256, (v % 65536) \div 256 >>
    ELSE << v.lo % 256, v.lo \div 256, (v.hi % 65536) % 256, (v.hi % 65536) \div 256 >>

\* the field whose bytes cover position p (1-based) of the buffer
FieldAt(fields, p) ==
    CHOOSE k \in 1..Len(fields) : SizeUpTo(fields, k - 1) < p /\ p <= SizeUpTo(fields, k)

\* MspPayload::encode: the SIZE bytes written to w
PayloadEncode(name, v) ==
    LET fields == Registry[name].fields
    IN  [p \in 1..SIZE(name) |->
            LET k == FieldAt(fields, p)
            IN  ToLe(v[k], fields[k])[p - SizeUpTo(fields, k - 1)]]

\* MspPayload::decode of a buffer of SIZE bytes
PayloadDecode(name, buf) ==
    LET fields == Registry[name].fields
    IN  [k \in 1..Len(fields) |->
            FromLe(SubSeq(buf, SizeUpTo(fields, k - 1) + 1, SizeUpTo(fields, k)), fields[k])]

(***************************************************************************)
(* PayloadSpec: encode and decode one payload of every registered type     *)
(***************************************************************************)
\* values at the ends and in the middle of each scalar range
SampleValues(ty) ==
    IF ty = U8 THEN <<0, 1, 128, 255>>
    ELSE IF ty = U16 THEN <<0, 255, 256, 65535>>
    ELSE IF ty = I16 THEN <<0, -1, -32768, 32767>>
    ELSE IF ty = U32 THEN << [hi |-> 0, lo |-> 0], [hi |-> 0, lo |-> 65535],
                             [hi |-> 32768, lo |-> 1], [hi |-> 65535, lo |-> 65535] >>
    ELSE << [hi |-> 0, lo |-> 0], [hi |-> -1, lo |-> 65535],
            [hi |-> -32768, lo |-> 0], [hi |-> 32767, lo |-> 65535] >>

SampleBytes == <<0, 1, 128, 255>>

SampleIndex == DOMAIN SampleBytes

\* payload values: every field takes sample s, but field j takes sample s2
PayloadValues(name) ==
    LET fields == Registry[name].fields
    IN  { [k \in 1..Len(fields) |->
              IF k = j THEN SampleValues(fields[k])[s2] ELSE SampleValues(fields[k])[s]]
          : s \in SampleIndex, s2 \in SampleIndex, j \in 1..Len(fields) }

\* buffers of SIZE bytes: every byte is sample s, but byte j is sample s2
PayloadBuffers(name) ==
    { [p \in 1..SIZE(name) |-> IF p = j THEN SampleBytes[s2] ELSE SampleBytes[s]]
      : s \in SampleIndex, s2 \in SampleIndex, j \in 1..SIZE(name) }

PayloadInit ==
    /\ SchedIdle /\ CodecIdle /\ LoopIdle /\ NextIdle /\ AdapterIdle
    /\ ptype \in PayloadNames
    /\ \/ /\ porig \in {[kind |-> "value", data |-> v] : v \in PayloadValues(ptype)}
          /\ pval = Some(porig.data)
          /\ pbytes = None
       \/ /\ porig \in {[kind |-> "bytes", data |-> b] : b \in PayloadBuffers(ptype)}
          /\ pval = None
          /\ pbytes = Some(porig.data)
    /\ pdone = 0

\* payload.encode(&mut buf)
PayloadEncodeStep ==
    /\ pdone < 2
    /\ pval # None
    /\ pbytes' = Some(PayloadEncode(ptype, Unwrap(pval)))
    /\ pval' = None
    /\ pdone' = pdone + 1
    /\ UNCHANGED <<ptype, porig, schedVars, codecVars, loopVars, nextVars, adapterVars>>

\* P::decode(&mut &buf[..])
PayloadDecodeStep ==
    /\ pdone < 2
    /\ pbytes # None
    /\ pval' = Some(PayloadDecode(ptype, Unwrap(pbytes)))
    /\ pbytes' = None
    /\ pdone' = pdone + 1
    /\ UNCHANGED <<ptype, porig, schedVars, codecVars, loopVars, nextVars, adapterVars>>

PayloadNext == PayloadEncodeStep \/ PayloadDecodeStep

PayloadSpec == PayloadInit /\ [][PayloadNext]_vars

(***************************************************************************)
(* Payload claims                                                          *)
(***************************************************************************)
\* the unsigned reading of a scalar value
UnsignedOf(v, ty) ==
    IF ty.size = 4 THEN [lo |-> v.lo, hi |-> v.hi % 65536] ELSE v % FullRange(ty.size)

\* byte m (0-based) of an unsigned scalar, least significant first
ByteOf(u, ty, m) ==
    IF ty.size = 4
    THEN IF m = 0 THEN u.lo % 256 ELSE IF m = 1 THEN u.lo \div 256
         ELSE IF m = 2 THEN u.hi % 256 ELSE u.hi \div 256
    ELSE IF m = 0 THEN u % 256 ELSE u \div 256

\* C5: for every registered payload type, decode(encode(v)) = v and
\* encode(decode(b)) = b for b of SIZE bytes; encode writes exactly SIZE
\* bytes, the fields in declaration order without padding, each least
\* significant byte first.
C5_PayloadRoundTrip ==
    LET fields == Registry[ptype].fields
    IN  /\ (porig.kind = "value" /\ pdone = 2) => pval = Some(porig.data)
        /\ (porig.kind = "bytes" /\ pdone = 2) => pbytes = Some(porig.data)
        /\ (porig.kind = "value" /\ pdone = 1) =>
              /\ Len(Unwrap(pbytes)) = SIZE(ptype)
              /\ \A k \in 1..Len(fields) : \A m \in 0..(fields[k].size - 1) :
                    Unwrap(pbytes)[SizeUpTo(fields, k - 1) + m + 1] =
                        ByteOf(UnsignedOf(porig.data[k], fields[k]), fields[k], m)

\* a payload with a negative field made the round trip, and so did a buffer
C5_Witness ==
    /\ pdone = 2
    /\ porig.kind = "value"
    /\ ptype = "MspAttitude"
    /\ porig.data[2] = -32768
    /\ pval = Some(porig.data)

(***************************************************************************)
(* MSP frames (src/src/msp.rs, MspMessage<P>)                              *)
(***************************************************************************)
\* '$', the start of a frame
Dollar == 36

\* From<&MspDirection> for u8
DirectionToU8(d) ==
    IF d = "Request" THEN 60 ELSE IF d = "Response" THEN 62 ELSE 33

\* TryFrom<u8> for MspDirection
DirectionFromU8(b) ==
    IF b = 60 THEN Some("Request")
    ELSE IF b = 62 THEN Some("Response")
    ELSE IF b = 33 THEN Some("Error")
    ELSE None

\* From<&MspVersion> for u8
VersionToU8(v) == IF v = "V1" THEN 77 ELSE 88

\* TryFrom<u8> for MspVersion
VersionFromU8(b) ==
    IF b = 77 THEN Some("V1") ELSE IF b = 88 THEN Some("V2") ELSE None

RECURSIVE XorBits(_, _, _)
XorBits(a, b, n) ==
    IF n = 0 THEN 0
    ELSE (((a % 2) + (b % 2)) % 2) + 2 * XorBits(a \div 2, b \div 2, n - 1)

\* a ^ b on u8
Xor(a, b) == XorBits(a, b, 8)

RECURSIVE XorAll(_, _)
\* xor ^= byte for the bytes of buf from position p (1-based) on
XorAll(buf, p) == IF p > Len(buf) THEN 0 ELSE Xor(buf[p], XorAll(buf, p + 1))

RECURSIVE CrcShift(_, _)
\* n steps of the CRC-8 register, most significant bit first, polynomial 0xd5
CrcShift(c, n) ==
    IF n = 0 THEN c
    ELSE CrcShift(IF c >= 128 THEN Xor((2 * c) % 256, 213) ELSE 2 * c, n - 1)

\* the register after one byte, for every register ^ byte
CrcTable == [c \in 0..255 |-> CrcShift(c, 8)]

RECURSIVE CrcDigest(_, _, _)
\* crc.digest(&buf[p-1..]) from register crc: CRC::create_crc(0xd5, 8, 0, 0, false)
CrcDigest(crc, buf, p) ==
    IF p > Len(buf) THEN crc ELSE CrcDigest(CrcTable[Xor(crc, buf[p])], buf, p + 1)

\* MspMessage::ser: the message without its checksum
ser(name, m) ==
    IF m.version = "V1" THEN [k \in 1..8 |-> 0]
    ELSE LET len == IF m.payload = None THEN 0 ELSE SIZE(name)
         IN  << Dollar, VersionToU8(m.version), DirectionToU8(m.direction),
                IF m.flag = None THEN 0 ELSE Unwrap(m.flag),
                m.function % 256, m.function \div 256,
                len % 256, len \div 256 >>
             \o (IF m.payload = None THEN <<>> ELSE PayloadEncode(name, Unwrap(m.payload)))

\* a checksum that takes in the whole buffer
checksumFromDollar(name, m) ==
    IF m.version = "V1" THEN XorAll(ser(name, m), 3)
    ELSE CrcDigest(0, ser(name, m), 1)

\* MspMessage::checksum
checksum(name, m) ==
    IF m.version = "V1" THEN XorAll(ser(name, m), 3)
    ELSE CrcDigest(0, ser(name, m), 4)

\* MspMessage::encode: the bytes written to w
encode(name, m) == ser(name, m) \o << checksum(name, m) >>

\* the message decode starts from
EmptyMessage ==
    [version |-> "V1", direction |-> "Error", flag |-> None, function |-> 0,
     payload |-> None]

DecodeOk(m, pos) == [ok |-> TRUE, err |-> "", message |-> m, pos |-> pos]
DecodeErr(e, m, pos) == [ok |-> FALSE, err |-> e, message |-> m, pos |-> pos]

\* get!(r, u8) and get!(r, u16) at position pos of the stream r
CanGet(r, pos, n) == pos + n - 1 <= Len(r)
GetU16(r, pos) == r[pos] + 256 * r[pos + 1]

RECURSIVE DecodeFrom(_, _, _, _, _)
\* the loop of MspMessage::decode from state st with pos - 1 bytes consumed;
\* st is [s |-> "Hunt"] for None and [s |-> "Payload", n |-> size] for
\* Some(State::Payload(size)); a failed read_exact consumes what is left
DecodeFrom(name, r, pos, st, m) ==
    LET eof == DecodeErr("UnexpectedEof", m, Len(r) + 1)
    IN
    IF st.s = "Hunt" THEN
        IF ~CanGet(r, pos, 1) THEN eof
        ELSE IF r[pos] = Dollar THEN DecodeFrom(name, r, pos + 1, [s |-> "Header"], m)
        ELSE DecodeFrom(name, r, pos + 1, st, m)
    ELSE IF st.s = "Header" THEN
        IF ~CanGet(r, pos, 1) THEN eof
        ELSE IF VersionFromU8(r[pos]) = None THEN DecodeErr("UnknownVersion", m, pos + 1)
        ELSE IF ~CanGet(r, pos + 1, 1) THEN eof
        ELSE IF DirectionFromU8(r[pos + 1]) = None
             THEN DecodeErr("UnknownDirection", m, pos + 2)
        ELSE LET v == Unwrap(VersionFromU8(r[pos]))
                 m2 == [m EXCEPT !.version = v,
                                 !.direction = Unwrap(DirectionFromU8(r[pos + 1]))]
             IN  DecodeFrom(name, r, pos + 2,
                            [s |-> IF v = "V1" THEN "V1Fields" ELSE "V2Fields"], m2)
    ELSE IF st.s = "V1Fields" THEN
        IF ~CanGet(r, pos, 3) THEN eof
        ELSE LET payload_size == r[pos]
                 m2 == [m EXCEPT !.flag = None, !.function = GetU16(r, pos + 1)]
             IN  DecodeFrom(name, r, pos + 3,
                            IF payload_size = 255 THEN [s |-> "Jumbo"]
                            ELSE [s |-> "Payload", n |-> payload_size], m2)
    ELSE IF st.s = "V2Fields" THEN
        IF ~CanGet(r, pos, 5) THEN eof
        ELSE LET payload_size == GetU16(r, pos + 3)
                 m2 == [m EXCEPT !.flag = Some(r[pos]), !.function = GetU16(r, pos + 1)]
             IN  DecodeFrom(name, r, pos + 5,
                            IF payload_size = 0 THEN [s |-> "Checksum"]
                            ELSE [s |-> "Payload", n |-> payload_size], m2)
    ELSE IF st.s = "Jumbo" THEN
        IF ~CanGet(r, pos, 2) THEN eof
        ELSE DecodeFrom(name, r, pos + 2, [s |-> "Payload", n |-> GetU16(r, pos)], m)
    ELSE IF st.s = "Payload" THEN
        IF st.n > 0 THEN
            IF ~CanGet(r, pos, SIZE(name)) THEN eof
            ELSE DecodeFrom(name, r, pos + SIZE(name), [s |-> "Checksum"],
                     [m EXCEPT !.payload =
                         Some(PayloadDecode(name, SubSeq(r, pos, pos + SIZE(name) - 1)))])
        ELSE DecodeFrom(name, r, pos, [s |-> "Checksum"], m)
    ELSE \* Checksum
        IF ~CanGet(r, pos, 1) THEN eof
        ELSE IF checksum(name, m) = r[pos] THEN DecodeOk(m, pos + 1)
        ELSE DecodeErr("WrongChecksum", m, pos + 1)

\* MspMessage::decode on the stream r: the result and the position reached
decode(name, r) == DecodeFrom(name, r, 1, [s |-> "Hunt"], EmptyMessage)

\* the stream r arrives in two chunks, r[0..k] and r[k..], and the reader
\* has no more data in between: decode is called on the first chunk; when
\* a read_exact fails at its end the call returns the error through `?`,
\* its state and message are dropped with the bytes it consumed, and the
\* next call of decode starts anew on the second chunk
decodeChunks(name, r, k) ==
    LET first == decode(name, SubSeq(r, 1, k))
    IN  IF first.ok THEN first ELSE decode(name, SubSeq(r, k + 1, Len(r)))

(***************************************************************************)
(* CodecSpec: one frame is encoded onto a stream, the stream may be        *)
(* disturbed (bytes in front of the frame, one bit flipped), and decode    *)
(* reads the stream, whole or in two chunks, once or twice.                *)
(***************************************************************************)
\* longest run of bytes put in front of a frame
MaxGarbage == 2

\* the payload types P the frames are built for
CodecTypes == {"MspIdent", "MspSetHead", "MspAttitude"}

\* payload values: every field takes the same sample
FramePayloads(name) ==
    { [k \in 1..Len(Registry[name].fields) |-> SampleValues(Registry[name].fields[k])[s]]
      : s \in SampleIndex }

\* "A flag may only be Some(_) if version == MspVersion::V2"
WellFormed(m) == m.version = "V1" => m.flag = None

\* the well-formed messages of type MspMessage<P>
Frames(name) ==
    { m \in [ version : {"V1", "V2"},
              direction : {"Request", "Response", "Error"},
              flag : {None, Some(0), Some(165)},
              function : {ID(name), 16962},
              payload : {None} \cup {Some(v) : v \in FramePayloads(name)} ]
      : WellFormed(m) }

\* bytes in front of a frame: noise, '$' and 'X'
GarbageBytes == {48, Dollar, 88}

RECURSIVE SeqsUpTo(_, _)
SeqsUpTo(S, n) ==
    IF n = 0 THEN {<<>>}
    ELSE LET shorter == SeqsUpTo(S, n - 1)
         IN  shorter \cup {Append(q, x) : q \in shorter, x \in S}

Garbage == SeqsUpTo(GarbageBytes, MaxGarbage) \ {<<>>}

\* positions of the bytes of the longest frame: 8 header bytes, the payload
\* and the checksum
FlipPositions ==
    1..(9 + SIZE(CHOOSE n \in CodecTypes : \A o \in CodecTypes : SIZE(o) <= SIZE(n)))

\* byte with bit b (0..7) inverted
FlipBit(byte, b) == IF (byte \div (2 ^ b)) % 2 = 1 THEN byte - 2 ^ b ELSE byte + 2 ^ b

CodecInit ==
    /\ SchedIdle /\ PayloadIdle /\ LoopIdle /\ NextIdle /\ AdapterIdle
    /\ ptype \in CodecTypes
    /\ cframe \in Frames(ptype)
    /\ wire = <<>>
    /\ noise = [kind |-> "none"]
    /\ cpc = "frame"
    /\ cres = None

\* message.encode(&mut buf)
CodecEncode ==
    /\ cpc = "frame"
    /\ wire' = encode(ptype, cframe)
    /\ cpc' = "encoded"
    /\ UNCHANGED <<ptype, cframe, noise, cres, schedVars, payloadVars, loopVars, nextVars, adapterVars>>

\* bytes arrive on the stream ahead of the frame
CodecGarbage(g) ==
    /\ cpc = "encoded"
    /\ noise.kind = "none"
    /\ wire' = g \o wire
    /\ noise' = [kind |-> "garbage", bytes |-> g]
    /\ UNCHANGED <<ptype, cframe, cpc, cres, schedVars, payloadVars, loopVars, nextVars, adapterVars>>

\* one bit of the stream is inverted in transit
CodecFlip(i, b) ==
    /\ cpc = "encoded"
    /\ noise.kind = "none"
    /\ i \in 1..Len(wire)
    /\ wire' = [wire EXCEPT ![i] = FlipBit(wire[i], b)]
    /\ noise' = [kind |-> "flip", index |-> i, bit |-> b]
    /\ UNCHANGED <<ptype, cframe, cpc, cres, schedVars, payloadVars, loopVars, nextVars, adapterVars>>

\* MspMessage::decode(&mut &buf[..])
CodecDecode ==
    /\ cpc = "encoded"
    /\ cres' = Some(decode(ptype, wire))
    /\ cpc' = "decoded"
    /\ UNCHANGED <<ptype, cframe, wire, noise, schedVars, payloadVars, loopVars, nextVars, adapterVars>>

\* bytes that are neither a version nor a direction character
UnknownBytes == {Dollar, 89}

\* the bytes of a frame with one of its bytes replaced
Damaged(frame, what, b) ==
    IF what = "version" THEN [frame EXCEPT ![2] = b]
    ELSE IF what = "direction" THEN [frame EXCEPT ![3] = b]
    ELSE [frame EXCEPT ![Len(frame)] = (frame[Len(frame)] + 255) % 256]

\* a damaged copy of the frame is on the stream ahead of the frame
CodecBadFrame(what, b) ==
    /\ cpc = "encoded"
    /\ noise.kind = "none"
    /\ wire' = Damaged(wire, what, b) \o wire
    /\ noise' = [kind |-> "badframe", what |-> what, byte |-> b]
    /\ UNCHANGED <<ptype, cframe, cpc, cres, schedVars, payloadVars, loopVars, nextVars, adapterVars>>

\* the next call of MspMessage::decode on the same reader, which stands
\* where the call before stopped reading
CodecDecodeAgain ==
    /\ cpc = "decoded"
    /\ noise.kind = "badframe"
    /\ cres' = Some(decode(ptype, SubSeq(wire, Unwrap(cres).pos, Len(wire))))
    /\ cpc' = "decoded again"
    /\ UNCHANGED <<ptype, cframe, wire, noise, schedVars, payloadVars, loopVars, nextVars, adapterVars>>

\* MspMessage::decode on a reader that delivers the stream in two chunks
CodecDecodeChunks(k) ==
    /\ cpc = "encoded"
    /\ noise.kind = "none"
    /\ k \in 0..Len(wire)
    /\ cres' = Some(decodeChunks(ptype, wire, k))
    /\ noise' = [kind |-> "split", index |-> k]
    /\ cpc' = "decoded"
    /\ UNCHANGED <<ptype, cframe, wire, schedVars, payloadVars, loopVars, nextVars, adapterVars>>

CodecNext ==
    \/ CodecEncode
    \/ \E g \in Garbage : CodecGarbage(g)
    \/ \E i \in FlipPositions, b \in 0..7 : CodecFlip(i, b)
    \/ CodecDecode
    \/ \E k \in {0} \cup FlipPositions : CodecDecodeChunks(k)
    \/ \E what \in {"version", "direction"}, b \in UnknownBytes : CodecBadFrame(what, b)
    \/ CodecBadFrame("checksum", 0)
    \/ CodecDecodeAgain

CodecSpec == CodecInit /\ [][CodecNext]_vars

(***************************************************************************)
(* Frame claims                                                            *)
(***************************************************************************)
\* what decode returns for the undisturbed bytes of cframe
DecodedClean == decode(ptype, encode(ptype, cframe))

\* C4: for every well-formed frame f (V1 or V2, any direction, flag absent
\* or present as the version allows, payload absent or present),
\* decode(encode(f)) returns a frame equal to f.
C4_FrameRoundTrip ==
    (cpc = "decoded" /\ noise.kind = "none")
        => (Unwrap(cres).ok /\ Unwrap(cres).message = cframe)

\* no '$' of g is followed by a version byte
NoFramePrefix(g) ==
    \A i \in 1..(Len(g) - 1) : ~(g[i] = Dollar /\ VersionFromU8(g[i + 1]) # None)

\* C6: for garbage without a '$'-led valid frame prefix (it may hold '$'
\* bytes that no version byte follows) and valid frame bytes F, decode on
\* garbage ++ F yields the frame decode(F) yields.
C6_Resynchronization ==
    (cpc = "decoded" /\ noise.kind = "garbage" /\ NoFramePrefix(noise.bytes)
        /\ DecodedClean.ok)
        => (Unwrap(cres).ok /\ Unwrap(cres).message = DecodedClean.message)

\* C7: for every valid frame, a single inverted bit in a header byte (the
\* direction byte and the length field included) or in the payload makes
\* decode return an error (CrcMismatch), never a frame.  Stated for the
\* bytes the checksum is computed over: flag, function, length, payload.
C7_BitFlipDetected ==
    (cpc = "decoded" /\ noise.kind = "flip" /\ DecodedClean.ok
        /\ noise.index >= 4 /\ noise.index < Len(wire))
        => ~Unwrap(cres).ok

(***************************************************************************)
(* The dispatch loop: core::event_loop, restarted by main                  *)
(***************************************************************************)
\* size passed to Schedule::new by event_loop (50 in src/src/core.rs:55)
LoopSize == 6
\* minor frames the clock may run ahead of the schedule
MaxBehind == 1
\* messages the channel holds at once (the mpsc channel is unbounded)
MaxChan == 1
\* receive workers spawned, one per run of event_loop
MaxWorkers == 2

ParamValueId == 22
RawImuId == 27
DebugFrequency == 5
\* requested message ids without a generator (GLOBAL_POSITION_INT)
UnsupportedIds == {33}
Million == 1000000

\* the keys of the generators map
Generators == {HeartbeatId, ParamValueId, RawImuId, AttitudeId}
\* generators that fetch from the flight controller and return its error
FetchingGenerators == {RawImuId, AttitudeId}

\* a frequency that stands for u32::MAX, which `as u32` yields for an
\* infinite quotient: insert takes the same path for every frequency of
\* at least twice the schedule's size
U32MaxStandIn == 2 * LoopSize + 1

\* (1_000_000f64 / interval_us as f64) as u32
FreqOfInterval(interval_us) ==
    IF interval_us < 0 THEN 0
    ELSE IF interval_us = 0 THEN U32MaxStandIn
    ELSE TruncDiv(Million, interval_us)

\* the same conversion rounding to nearest
FreqOfIntervalRounded(interval_us) ==
    IF interval_us < 0 THEN 0
    ELSE IF interval_us = 0 THEN U32MaxStandIn
    ELSE RoundDiv(Million, interval_us)

\* Schedule::next as event_loop calls it: None when no minor frame has
\* elapsed, else the task of the first non-empty slot among the elapsed ones
RECURSIVE ScheduleNext(_, _, _)
ScheduleNext(t, last, lag) ==
    IF lag = 0 THEN [task |-> None, last_frame |-> last, behind |-> 0]
    ELSE IF t[last] # None
         THEN [task |-> Some(Unwrap(t[last])),
               last_frame |-> (last + 1) % SLen(t), behind |-> lag - 1]
         ELSE ScheduleNext(t, (last + 1) % SLen(t), lag - 1)

\* what the receive worker hands over: mavconn.recv()'s result
\* MESSAGE_INTERVAL requests: <<message_id, interval_us>>
Intervals ==
    {<<AttitudeId, -1>>, <<AttitudeId, 600000>>,
     <<AttitudeId, Million \div (2 * LoopSize)>>}
    \cup {<<id, us>> : id \in UnsupportedIds, us \in {Million, 0}}
Inbound ==
    {[ok |-> TRUE, kind |-> "HEARTBEAT", message_id |-> 0, interval_us |-> 0],
     [ok |-> TRUE, kind |-> "DATA_STREAM", message_id |-> 0, interval_us |-> 0],
     [ok |-> TRUE, kind |-> "OTHER", message_id |-> 0, interval_us |-> 0],
     [ok |-> FALSE, kind |-> "IoError", message_id |-> 0, interval_us |-> 0]}
    \cup {[ok |-> TRUE, kind |-> "MESSAGE_INTERVAL", message_id |-> m[1],
           interval_us |-> m[2]] : m \in Intervals}

NoIter == [kind |-> "none"]

LoopInit ==
    /\ pc = "start"
    /\ last_frame = 0
    /\ behind = 0
    /\ chan = <<>>
    /\ workers = 0
    /\ iter = NoIter
    /\ SchedIdle /\ TypeIdle /\ PayloadIdle /\ CodecIdle /\ NextIdle /\ AdapterIdle

otherVars == <<ptype, payloadVars, codecVars, nextVars, adapterVars>>

\* serialport::open, set_timeout and clear succeed
StartupSerial ==
    /\ pc = "start"
    /\ pc' = "serial"
    /\ iter' = NoIter
    /\ UNCHANGED <<time, call, last_frame, behind, chan, workers, otherVars>>

\* one of them fails: expect panics
StartupSerialFail ==
    /\ pc = "start"
    /\ pc' = "panicked"
    /\ iter' = NoIter
    /\ UNCHANGED <<time, call, last_frame, behind, chan, workers, otherVars>>

\* MspMessage::fetch of MspIdent returns a response
StartupIdent ==
    /\ pc = "serial"
    /\ pc' = "ident"
    /\ UNCHANGED <<time, call, last_frame, behind, chan, workers, iter, otherVars>>

\* the fetch fails: expect("unable to receive response") panics
StartupIdentFail ==
    /\ pc = "serial"
    /\ pc' = "panicked"
    /\ UNCHANGED <<time, call, last_frame, behind, chan, workers, iter, otherVars>>

\* a startup that opens the MAVLink transport before the handshake
StartupMavBeforeIdent ==
    /\ pc \in {"serial", "ident"}
    /\ pc' = "mav"
    /\ chan' = <<>>
    /\ workers' = workers + 1
    /\ UNCHANGED <<time, call, last_frame, behind, iter, otherVars>>

\* WrappedMAVConnection::new: a fresh channel and a receive worker
StartupMav ==
    /\ pc = "ident"
    /\ pc' = "mav"
    /\ chan' = <<>>
    /\ workers' = workers + 1
    /\ UNCHANGED <<time, call, last_frame, behind, iter, otherVars>>

\* mavlink::connect fails: unwrap panics
StartupMavFail ==
    /\ pc = "ident"
    /\ pc' = "panicked"
    /\ UNCHANGED <<time, call, last_frame, behind, chan, workers, iter, otherVars>>

\* Schedule::new(50) and schedule.insert(1, 0).expect(..)
StartupHeartbeat ==
    LET r == insert(ScheduleNew(LoopSize), 1, HeartbeatId)
    IN  /\ pc = "mav"
        /\ pc' = IF r.result = "Ok" THEN "sched" ELSE "panicked"
        /\ time' = r.time
        /\ call' = [op |-> "insert", frequency |-> 1, task |-> HeartbeatId,
                    result |-> r.result]
        /\ last_frame' = 0
        /\ behind' = 0
        /\ UNCHANGED <<chan, workers, iter, otherVars>>

\* schedule.insert(5, 30); //debug -- the result is dropped
StartupDebugInsert ==
    LET r == insert(time, DebugFrequency, AttitudeId)
    IN  /\ pc = "sched"
        /\ pc' = IF r.result \in {"Ok", "Conflict"} THEN "loop" ELSE "panicked"
        /\ time' = r.time
        /\ call' = [op |-> "insert", frequency |-> DebugFrequency,
                    task |-> AttitudeId, result |-> r.result]
        /\ UNCHANGED <<last_frame, behind, chan, workers, iter, otherVars>>

\* the wall clock reaches the next minor frame
LoopTick ==
    /\ pc = "loop"
    /\ behind < MaxBehind
    /\ behind' = behind + 1
    /\ UNCHANGED <<time, call, pc, last_frame, chan, workers, iter, otherVars>>

\* Some(id), a generator is registered and returns a message: mavconn.send
LoopSend(id) ==
    LET n == ScheduleNext(time, last_frame, behind)
    IN  /\ pc = "loop"
        /\ n.task = Some(id)
        /\ id \in Generators
        /\ last_frame' = n.last_frame
        /\ behind' = n.behind
        /\ iter' = [kind |-> "sent", id |-> id]
        /\ call' = NoCall
        /\ UNCHANGED <<time, pc, chan, workers, otherVars>>

\* Some(id), the generator returns Err: expect("message could not be
\* generated") panics
LoopGenError(id) ==
    LET n == ScheduleNext(time, last_frame, behind)
    IN  /\ pc = "loop"
        /\ n.task = Some(id)
        /\ id \in FetchingGenerators
        /\ last_frame' = n.last_frame
        /\ behind' = n.behind
        /\ iter' = [kind |-> "generror", id |-> id]
        /\ pc' = "panicked"
        /\ call' = NoCall
        /\ UNCHANGED <<time, chan, workers, otherVars>>

\* a loop that looks the generator up by index: a missing key panics
LoopNoGeneratorPanics(id) ==
    LET n == ScheduleNext(time, last_frame, behind)
    IN  /\ pc = "loop"
        /\ n.task = Some(id)
        /\ id \notin Generators
        /\ last_frame' = n.last_frame
        /\ behind' = n.behind
        /\ iter' = [kind |-> "nogenerator", id |-> id]
        /\ pc' = "panicked"
        /\ call' = NoCall
        /\ UNCHANGED <<time, chan, workers, otherVars>>

\* Some(id) without a generator: a warning
LoopNoGenerator(id) ==
    LET n == ScheduleNext(time, last_frame, behind)
    IN  /\ pc = "loop"
        /\ n.task = Some(id)
        /\ id \notin Generators
        /\ last_frame' = n.last_frame
        /\ behind' = n.behind
        /\ iter' = [kind |-> "nogenerator", id |-> id]
        /\ call' = NoCall
        /\ UNCHANGED <<time, pc, chan, workers, otherVars>>

\* a loop that polls the channel whatever next returned
LoopHandleAnyTime ==
    LET n == ScheduleNext(time, last_frame, behind)
        msg == Head(chan)
        freq == FreqOfInterval(msg.interval_us)
        r == insert(time, freq, msg.message_id)
    IN  /\ pc = "loop"
        /\ chan # <<>>
        /\ msg.ok
        /\ last_frame' = n.last_frame
        /\ behind' = n.behind
        /\ chan' = Tail(chan)
        /\ iter' = [kind |-> "handled", msg |-> msg]
        /\ IF msg.kind = "MESSAGE_INTERVAL"
           THEN /\ time' = r.time
                /\ call' = [op |-> "insert", frequency |-> freq,
                            task |-> msg.message_id, result |-> r.result]
                /\ pc' = IF r.result \in {"Ok", "Conflict"} THEN "loop"
                         ELSE "panicked"
           ELSE /\ call' = NoCall
                /\ UNCHANGED <<time, pc>>
        /\ UNCHANGED <<workers, otherVars>>

\* None, recv_timeout returns Ok((_, msg)): dispatch on the message
LoopHandle ==
    LET n == ScheduleNext(time, last_frame, behind)
        msg == Head(chan)
        freq == FreqOfInterval(msg.interval_us)
        r == insert(time, freq, msg.message_id)
    IN  /\ pc = "loop"
        /\ n.task = None
        /\ chan # <<>>
        /\ msg.ok
        /\ last_frame' = n.last_frame
        /\ behind' = n.behind
        /\ chan' = Tail(chan)
        /\ iter' = [kind |-> "handled", msg |-> msg]
        /\ IF msg.kind = "MESSAGE_INTERVAL"
           THEN /\ time' = r.time
                /\ call' = [op |-> "insert", frequency |-> freq,
                            task |-> msg.message_id, result |-> r.result]
                /\ pc' = IF r.result \in {"Ok", "Conflict"} THEN "loop"
                         ELSE "panicked"
           ELSE /\ call' = NoCall
                /\ UNCHANGED <<time, pc>>
        /\ UNCHANGED <<workers, otherVars>>

\* None, recv_timeout times out: io::ErrorKind::WouldBlock, continue
LoopWouldBlock ==
    LET n == ScheduleNext(time, last_frame, behind)
    IN  /\ pc = "loop"
        /\ n.task = None
        /\ chan = <<>>
        /\ last_frame' = n.last_frame
        /\ behind' = n.behind
        /\ iter' = [kind |-> "wouldblock"]
        /\ call' = NoCall
        /\ UNCHANGED <<time, pc, chan, workers, otherVars>>

\* a loop that logs the transport's error and goes on
LoopRecvErrorIgnored ==
    LET n == ScheduleNext(time, last_frame, behind)
    IN  /\ pc = "loop"
        /\ n.task = None
        /\ chan # <<>>
        /\ ~Head(chan).ok
        /\ last_frame' = n.last_frame
        /\ behind' = n.behind
        /\ chan' = Tail(chan)
        /\ iter' = [kind |-> "recverror"]
        /\ call' = NoCall
        /\ UNCHANGED <<time, pc, workers, otherVars>>

\* None, recv_timeout hands over the transport's error: break, event_loop
\* returns and drops the receiver
LoopRecvError ==
    LET n == ScheduleNext(time, last_frame, behind)
    IN  /\ pc = "loop"
        /\ n.task = None
        /\ chan # <<>>
        /\ ~Head(chan).ok
        /\ last_frame' = n.last_frame
        /\ behind' = n.behind
        /\ chan' = <<>>
        /\ iter' = [kind |-> "recverror"]
        /\ pc' = "returned"
        /\ call' = NoCall
        /\ UNCHANGED <<time, workers, otherVars>>

\* main: warn!("restarting event_loop") and the next call of event_loop
MainRestart ==
    /\ pc = "returned"
    /\ workers < MaxWorkers
    /\ pc' = "start"
    /\ time' = <<>>
    /\ call' = NoCall
    /\ last_frame' = 0
    /\ behind' = 0
    /\ UNCHANGED <<chan, workers, iter, otherVars>>

\* the receive worker: tx.send(mavconn.recv())
WorkerRecv(res) ==
    /\ pc \in {"mav", "sched", "loop"}
    /\ workers > 0
    /\ Len(chan) < MaxChan
    /\ chan' = Append(chan, res)
    /\ UNCHANGED <<time, call, pc, last_frame, behind, workers, iter, otherVars>>

Next ==
    \/ StartupSerial
    \/ StartupSerialFail
    \/ StartupIdent
    \/ StartupIdentFail
    \/ StartupMav
    \/ StartupMavFail
    \/ StartupHeartbeat
    \/ StartupDebugInsert
    \/ LoopTick
    \/ \E id \in Generators \cup UnsupportedIds : LoopSend(id)
    \/ \E id \in Generators \cup UnsupportedIds : LoopGenError(id)
    \/ \E id \in Generators \cup UnsupportedIds : LoopNoGenerator(id)
    \/ LoopHandle
    \/ LoopWouldBlock
    \/ LoopRecvError
    \/ MainRestart
    \/ \E res \in Inbound : WorkerRecv(res)

Spec == LoopInit /\ [][Next]_vars

(***************************************************************************)
(* Dispatch-loop claims                                                    *)
(***************************************************************************)
\* C8: a generator that returns an error does not terminate the dispatch
\* loop: after the failed generation the loop is still running.
C8_GeneratorErrorKeepsLoop ==
    iter.kind = "generror" => pc = "loop"

\* C9: no inbound MESSAGE_INTERVAL -- interval 0, a negative interval, a
\* frequency above the schedule's size or above twice its size included --
\* aborts the dispatch loop: after handling it the loop is still running.
\* Stated for the requests whose frequency is finite (interval_us # 0).
C9_InboundNeverAborts ==
    (iter.kind = "handled" /\ iter.msg.interval_us # 0) => pc = "loop"

\* C10: a MESSAGE_INTERVAL with a positive interval_us is inserted with
\* freq_hz = round(1_000_000 / interval_us), rounded to nearest, for the
\* task message_id.
C10_FrequencyRounded ==
    (iter.kind = "handled" /\ iter.msg.kind = "MESSAGE_INTERVAL"
        /\ iter.msg.interval_us > 0)
        => (call.op = "insert"
            /\ call.task = iter.msg.message_id
            /\ call.frequency = FreqOfIntervalRounded(iter.msg.interval_us))

(***************************************************************************)
(* ScenarioSpec: event_loop with the schedule of its source size, from     *)
(* startup on, handling MESSAGE_INTERVAL requests as they are delivered    *)
(* (no task comes due in between).                                         *)
(***************************************************************************)
\* Schedule::new(50)
EventLoopSize == 50

\* MESSAGE_INTERVAL requests delivered: <<message_id, interval_us>>
ScenarioIntervals ==
    {<<AttitudeId, us>> : us \in {33333, 50000, -1}}
    \cup {<<id, us>> : id \in UnsupportedIds, us \in {100000, 50000, -1}}

ScenarioInit ==
    /\ pc = "mav"
    /\ last_frame = 0
    /\ behind = 0
    /\ chan = <<>>
    /\ workers = 1
    /\ iter = NoIter
    /\ SchedIdle /\ TypeIdle /\ PayloadIdle /\ CodecIdle /\ NextIdle /\ AdapterIdle

\* Schedule::new(50) and schedule.insert(1, 0).expect(..)
ScenarioHeartbeat ==
    LET r == insert(ScheduleNew(EventLoopSize), 1, HeartbeatId)
    IN  /\ pc = "mav"
        /\ pc' = IF r.result = "Ok" THEN "sched" ELSE "panicked"
        /\ time' = r.time
        /\ call' = [op |-> "insert", frequency |-> 1, task |-> HeartbeatId,
                    result |-> r.result]
        /\ UNCHANGED <<last_frame, behind, chan, workers, iter, otherVars>>

\* schedule.insert(5, 30); //debug
ScenarioDebugInsert ==
    LET r == insert(time, DebugFrequency, AttitudeId)
    IN  /\ pc = "sched"
        /\ pc' = IF r.result \in {"Ok", "Conflict"} THEN "loop" ELSE "panicked"
        /\ time' = r.time
        /\ call' = [op |-> "insert", frequency |-> DebugFrequency,
                    task |-> AttitudeId, result |-> r.result]
        /\ UNCHANGED <<last_frame, behind, chan, workers, iter, otherVars>>

\* recv_timeout returns a MESSAGE_INTERVAL: freq and schedule.insert
ScenarioHandle(id, us) ==
    LET msg == [ok |-> TRUE, kind |-> "MESSAGE_INTERVAL", message_id |-> id,
                interval_us |-> us]
        freq == FreqOfInterval(us)
        r == insert(time, freq, id)
    IN  /\ pc = "loop"
        /\ iter' = [kind |-> "handled", msg |-> msg]
        /\ time' = r.time
        /\ call' = [op |-> "insert", frequency |-> freq, task |-> id,
                    result |-> r.result]
        /\ pc' = IF r.result \in {"Ok", "Conflict"} THEN "loop" ELSE "panicked"
        /\ UNCHANGED <<last_frame, behind, chan, workers, otherVars>>

ScenarioNext ==
    \/ ScenarioHeartbeat
    \/ ScenarioDebugInsert
    \/ \E m \in ScenarioIntervals : ScenarioHandle(m[1], m[2])

ScenarioSpec == ScenarioInit /\ [][ScenarioNext]_vars

\* C11: once the loop has handled MESSAGE_INTERVAL { message_id = 30,
\* interval_us = 33333 } after startup, count(30) equals 30.
C11_IntervalProgramsSchedule ==
    (iter.kind = "handled" /\ iter.msg.message_id = AttitudeId
        /\ iter.msg.interval_us = 33333)
        => count(time, AttitudeId) = 30

(***************************************************************************)
(* PackSpec: distinct tasks inserted one after the other into a schedule   *)
(* that starts empty -- schedules of every small size with every frequency *)
(* up to the size, and the schedules of the tests of scheduler.rs          *)
(***************************************************************************)
\* the largest small schedule
MaxPackSize == 7
\* the tasks inserted into the small schedules are 1..MaxPackTasks
MaxPackTasks == 3
\* Schedule::new(200) of test::simple, test::multiple_identical_frequencies
\* and test::multiple_similar_frequencies
TestSize == 200

PackTasks == 1..MaxPackTasks

\* the tasks that hold a slot
Present(t) == {Unwrap(t[j]) : j \in {k \in DOMAIN t : t[k] # None}}

PackInit ==
    /\ \E n \in (1..MaxPackSize) \cup {TestSize} : time = ScheduleNew(n)
    /\ call = NoCall
    /\ TypeIdle /\ PayloadIdle /\ CodecIdle /\ LoopIdle /\ NextIdle /\ AdapterIdle

\* s.insert(frequency, task) for a task that is not scheduled yet
PackInsert(frequency, task) ==
    LET r == insert(time, frequency, task)
    IN  /\ SLen(time) <= MaxPackSize
        /\ frequency <= SLen(time)
        /\ task \notin Present(time)
        /\ time' = r.time
        /\ call' = [op |-> "insert", frequency |-> frequency, task |-> task,
                    result |-> r.result]
        /\ UNCHANGED <<ptype, payloadVars, codecVars, loopVars, nextVars, adapterVars>>

\* test::simple: for i in 3..10 { s.insert(i, Task { id: i }).unwrap() }
TestSimple(i) ==
    LET r == insert(time, i, i)
    IN  /\ SLen(time) = TestSize
        /\ Present(time) = 3..(i - 1)
        /\ Present(time) # {} => (call.op = "insert" /\ call.frequency = call.task)
        /\ time' = r.time
        /\ call' = [op |-> "insert", frequency |-> i, task |-> i, result |-> r.result]
        /\ UNCHANGED <<ptype, payloadVars, codecVars, loopVars, nextVars, adapterVars>>

\* test::multiple_identical_frequencies:
\* for i in 0..20 { s.insert(7, Task { id: i }).unwrap() }
TestIdentical(i) ==
    LET r == insert(time, 7, i)
    IN  /\ SLen(time) = TestSize
        /\ Present(time) = 0..(i - 1)
        /\ Present(time) # {} => (call.op = "insert" /\ call.frequency = 7)
        /\ time' = r.time
        /\ call' = [op |-> "insert", frequency |-> 7, task |-> i, result |-> r.result]
        /\ UNCHANGED <<ptype, payloadVars, codecVars, loopVars, nextVars, adapterVars>>

\* test::multiple_similar_frequencies:
\* for i in 3..14 { s.insert(i % 5 + 1, Task { id: i }).unwrap() }
TestSimilar(i) ==
    LET r == insert(time, (i % 5) + 1, i)
    IN  /\ SLen(time) = TestSize
        /\ Present(time) = 3..(i - 1)
        /\ Present(time) # {} =>
              (call.op = "insert" /\ call.frequency = (call.task % 5) + 1)
        /\ time' = r.time
        /\ call' = [op |-> "insert", frequency |-> (i % 5) + 1, task |-> i,
                    result |-> r.result]
        /\ UNCHANGED <<ptype, payloadVars, codecVars, loopVars, nextVars, adapterVars>>

PackNext ==
    \/ \E frequency \in 1..MaxPackSize, task \in PackTasks : PackInsert(frequency, task)
    \/ \E i \in 3..9 : TestSimple(i)
    \/ \E i \in 0..19 : TestIdentical(i)
    \/ \E i \in 3..13 : TestSimilar(i)

PackSpec == PackInit /\ [][PackNext]_vars

(***************************************************************************)
(* Packing claims                                                          *)
(***************************************************************************)
\* the slots of t that hold task
SlotsOf(t, task) == {j \in DOMAIN t : t[j] = Some(task)}

\* the gap from slot j of the set slots to the cyclically next one (the
\* whole frame when j is the only slot)
GapAfter(t, slots, j) ==
    Least({d \in 1..SLen(t) : ((j + d) % SLen(t)) \in slots})

\* the gaps between cyclically consecutive slots of task
Gaps(t, task) == {GapAfter(t, SlotsOf(t, task), j) : j \in SlotsOf(t, task)}

\* C12: after insert(f, task) succeeds on an empty schedule of size N with
\* 1 <= f <= N, the gaps between cyclically consecutive slots of task (the
\* wrap-around gap included) differ by at most 1.
C12_EvenlySpaced ==
    [][(Present(time) = {} /\ call'.op = "insert" /\ call'.result = "Ok"
        /\ call'.frequency >= 1 /\ call'.frequency <= SLen(time))
        => \A g1, g2 \in Gaps(time', call'.task) : g1 - g2 <= 1]_vars

\* a first insert whose frequency does not divide the size: two gap lengths
C12_Witness ==
    /\ call.op = "insert"
    /\ call.result = "Ok"
    /\ Present(time) = {call.task}
    /\ count(time, call.task) = call.frequency
    /\ Cardinality(Gaps(time, call.task)) = 2

\* C13: on an empty schedule of size 200, inserting the tasks i = 3..9 at
\* frequency i in that order succeeds each time with count(task i) = i;
\* inserting 20 tasks at 7 Hz succeeds each time with count 7 for each; and
\* on any schedule that holds m - 1 tasks of frequency f and nothing else,
\* one more task of frequency f fits whenever m <= floor(N / f).
C13_Packing ==
    [][call'.op = "insert" =>
        LET N == SLen(time)
            f == call'.frequency
            task == call'.task
        IN  /\ (N = TestSize /\ f = task /\ Present(time) = 3..(task - 1))
                => (call'.result = "Ok"
                    /\ \A k \in 3..task : count(time', k) = k)
            /\ (N = TestSize /\ f = 7 /\ Present(time) = 0..(task - 1))
                => (call'.result = "Ok"
                    /\ \A k \in 0..task : count(time', k) = 7)
            /\ (task \notin Present(time)
                /\ (\A k \in Present(time) : count(time, k) = f)
                /\ Cardinality(Present(time)) + 1 <= N \div f)
                => (call'.result = "Ok"
                    /\ \A k \in Present(time) \cup {task} : count(time', k) = f)
      ]_vars

\* the twentieth task of 7 Hz was placed on the 200 slots
C13_Witness ==
    /\ SLen(time) = TestSize
    /\ call.op = "insert"
    /\ call.frequency = 7
    /\ call.task = 19
    /\ call.result = "Ok"
    /\ Present(time) = 0..19

(***************************************************************************)
(* Placement claims (SchedSpec)                                            *)
(***************************************************************************)
\* rotating the evenly spaced pattern of frequency by tau takes no occupied
\* slot of t: slot j is taken when the pattern holds (j - tau) mod N
RotationFits(t, frequency, tau) ==
    \A i \in 0..(frequency - 1) :
        t[(PatternIndex(SLen(t), frequency, i) + tau) % SLen(t)] = None

SomeRotationFits(t, frequency) ==
    \E tau \in 0..(SLen(t) - 1) : RotationFits(t, frequency, tau)

\* C14: insert(f, task) with f >= 1 returns Conflict if and only if no
\* rotation tau in [0, N) makes the task's evenly spaced pattern disjoint
\* from the occupied slots; whenever such a rotation exists the insert
\* commits (returns Ok with the task on f more slots or, for f > N, on the
\* slots of the pattern).
C14_ConflictIffNoRotation ==
    [][(call'.op = "insert" /\ call'.frequency >= 1) =>
        /\ (call'.result = "Conflict") <=> ~SomeRotationFits(time, call'.frequency)
        /\ SomeRotationFits(time, call'.frequency)
            => (call'.result = "Ok"
                /\ count(time', call'.task) > count(time, call'.task))
      ]_vars

\* C15: insert(0, task) returns Ok and has exactly the effect of
\* delete(task): every slot that held task becomes empty, every other slot
\* is unchanged and count(task) = 0 afterwards; both change nothing when the
\* task holds no slot.
C15_InsertZeroDeletes ==
    [][((call'.op = "insert" /\ call'.frequency = 0) \/ call'.op = "delete") =>
        /\ call'.result = "Ok"
        /\ call'.op = "insert" => time' = delete(time, call'.task)
        /\ \A j \in DOMAIN time :
              IF time[j] = Some(call'.task) THEN time'[j] = None
              ELSE time'[j] = time[j]
        /\ count(time', call'.task) = 0
        /\ count(time, call'.task) = 0 => time' = time
      ]_vars

\* insert(0, task) was called next to another task's slots
C15_Witness ==
    /\ call.op = "insert"
    /\ call.frequency = 0
    /\ call.result = "Ok"
    /\ count(time, call.task) = 0
    /\ \E other \in SchedTasks : count(time, other) > 1

(***************************************************************************)
(* NextSpec: Schedule::next (src/src/scheduler.rs) against the clock.      *)
(* One caller awaits next(); each pass of its loop awaits the timer of the *)
(* minor frame after frame.last_time, then consumes the slot               *)
(* frame.last % len.  Here last_frame is frame.last and behind the whole   *)
(* minor frames between frame.last_time and now; the schedule is the       *)
(* outcome of two inserts made before the first call.                      *)
(***************************************************************************)
\* size of the schedule next() runs on
NextSize == 4
\* minor frames the run lasts
MaxFrames == 9
\* minor frames the caller may let pass before its next call
MaxDelay == 2

NextInit ==
    /\ \E f1 \in 0..NextSize, f2 \in 1..(2 * NextSize - 1), t1, t2 \in SchedTasks :
          LET a == insert(ScheduleNew(NextSize), f1, t1)
              b == insert(a.time, f2, t2)
          IN  /\ time = b.time
              /\ call = [op |-> "insert", frequency |-> f2, task |-> t2,
                         result |-> b.result]
    /\ pc = "idle"
    /\ last_frame = 0
    /\ behind = 0
    /\ chan = <<>>
    /\ workers = 0
    /\ iter = NoIter
    /\ yielded = <<>>
    /\ TypeIdle /\ PayloadIdle /\ CodecIdle /\ AdapterIdle

\* the wall clock reaches the next minor frame
NextTick ==
    /\ behind < MaxDelay
    /\ last_frame + behind < MaxFrames
    /\ behind' = behind + 1
    /\ UNCHANGED <<time, call, pc, last_frame, chan, workers, iter, yielded,
                   ptype, payloadVars, codecVars, adapterVars>>

\* s.next(): the future is awaited, its pass waits for Timer::at
NextCall ==
    /\ pc = "idle"
    /\ pc' = "waiting"
    /\ UNCHANGED <<time, call, last_frame, behind, chan, workers, iter, yielded,
                   ptype, payloadVars, codecVars, adapterVars>>

\* a next that jumps to the current minor frame
NextReturnCatchUp ==
    LET index == (last_frame + behind - 1) % SLen(time)
    IN  /\ pc = "waiting"
        /\ behind >= 1
        /\ time[index] # None
        /\ last_frame' = last_frame + behind
        /\ behind' = 0
        /\ yielded' = Append(yielded, time[index])
        /\ iter' = [kind |-> "returned", task |-> Unwrap(time[index])]
        /\ pc' = "idle"
        /\ UNCHANGED <<time, call, chan, workers, ptype, payloadVars, codecVars, adapterVars>>

\* the timer is due, the slot holds a task: return **task
NextReturn ==
    LET index == last_frame % SLen(time)
    IN  /\ pc = "waiting"
        /\ behind >= 1
        /\ time[index] # None
        /\ last_frame' = last_frame + 1
        /\ behind' = behind - 1
        /\ yielded' = Append(yielded, time[index])
        /\ iter' = [kind |-> "returned", task |-> Unwrap(time[index])]
        /\ pc' = "idle"
        /\ UNCHANGED <<time, call, chan, workers, ptype, payloadVars, codecVars, adapterVars>>

\* the timer is due, the slot is empty: the loop of next goes round
NextSkip ==
    LET index == last_frame % SLen(time)
    IN  /\ pc = "waiting"
        /\ behind >= 1
        /\ time[index] = None
        /\ last_frame' = last_frame + 1
        /\ behind' = behind - 1
        /\ yielded' = Append(yielded, None)
        /\ UNCHANGED <<time, call, pc, chan, workers, iter, ptype, payloadVars,
                       codecVars, adapterVars>>

NextNext ==
    \/ NextTick
    \/ NextCall
    \/ NextReturn
    \/ NextSkip

NextSpec == NextInit /\ [][NextNext]_vars

(***************************************************************************)
(* Claims about Schedule::next, checked under NextSpec.                    *)
(***************************************************************************)
\* how often next returned the task from the W slots after slot a
ReturnsIn(a, W, task) ==
    Cardinality({k \in (a + 1)..(a + W) : yielded[k] = Some(task)})

\* C16: after a successful insert(frequency, task), over every window of
\* W minor frames of schedule time with W / len >= 2 / frequency seconds,
\* next returns the task between floor(T * frequency) and
\* ceil(T * frequency) times, T = W / len being the window in seconds.
C16_WindowCount ==
    (call.result = "Ok") =>
        \A a \in 0..Len(yielded), W \in 1..Len(yielded) :
            (a + W <= Len(yielded) /\ W * call.frequency >= 2 * SLen(time)) =>
                LET n == ReturnsIn(a, W, call.task)
                IN  /\ (W * call.frequency) \div SLen(time) <= n
                    /\ n <= (W * call.frequency + SLen(time) - 1) \div SLen(time)

\* C17: next consumes the slots one at a time in slot order, cyclically:
\* the k-th slot it consumed is slot (k - 1) % len, whatever the delay of
\* the caller; an occupied slot is returned to the caller, an empty one is
\* skipped and the call goes on.
C17_SlotOrder ==
    [][ /\ Len(yielded') = last_frame'
        /\ \A k \in 1..Len(yielded') : yielded'[k] = time[(k - 1) % SLen(time)]
        /\ last_frame' \in {last_frame, last_frame + 1}
        /\ (last_frame' = last_frame + 1) =>
              LET slot == time[last_frame % SLen(time)]
              IN  /\ pc = "waiting"
                  /\ (slot # None) =>
                        /\ pc' = "idle"
                        /\ iter' = [kind |-> "returned", task |-> Unwrap(slot)]
                  /\ (slot = None) => (pc' = "waiting" /\ iter' = iter)
      ]_vars

\* a delayed caller got an occupied slot of the second major frame, after
\* an empty slot was skipped, and a further elapsed slot is still to come
C17_Witness ==
    /\ pc = "idle"
    /\ iter.kind = "returned"
    /\ behind >= 1
    /\ last_frame > SLen(time)
    /\ yielded[last_frame] = Some(iter.task)
    /\ \E k \in 1..Len(yielded) : yielded[k] = None

\* some occupied slot has elapsed and is not yet consumed
ElapsedOccupied ==
    \E k \in last_frame..(last_frame + behind - 1) : time[k % SLen(time)] # None

\* C18: a call to next is never left waiting when no occupied slot has
\* elapsed (the current minor frame is last_frame, or the elapsed slots are
\* all empty): it has returned none to the caller.
C18_NoneWhenNothingDue == (pc = "waiting") => ElapsedOccupied

(***************************************************************************)
(* Claims about partial streams and the V2 layout, checked under CodecSpec *)
(***************************************************************************)
\* C19: for every valid frame F and every split point k, decode fed F[0..k]
\* and then F[k..], the reader having no more data between the chunks,
\* yields the frame that decode yields on F whole: the progress made on
\* the first chunk is not lost.
C19_IncrementalParsing ==
    (cpc = "decoded" /\ noise.kind = "split" /\ DecodedClean.ok)
        => (Unwrap(cres).ok /\ Unwrap(cres).message = DecodedClean.message)

RECURSIVE BitsOf(_, _)
\* the n low bits of byte, most significant first
BitsOf(byte, n) ==
    IF n = 0 THEN <<>> ELSE Append(BitsOf(byte \div 2, n - 1), byte % 2)

RECURSIVE PolyMod(_, _, _)
\* remainder of the polynomial bits[p..] over GF(2), rem being the remainder
\* so far, modulo x^8 + x^7 + x^6 + x^4 + x^2 + 1 (0x1d5)
PolyMod(bits, p, rem) ==
    IF p > Len(bits) THEN rem
    ELSE IF 2 * rem + bits[p] >= 256
         THEN PolyMod(bits, p + 1, XorBits(2 * rem + bits[p], 469, 9))
         ELSE PolyMod(bits, p + 1, 2 * rem + bits[p])

RECURSIVE DivideBytes(_, _, _)
\* the remainder after the bytes of buf from position p on are brought down
DivideBytes(buf, p, rem) ==
    IF p > Len(buf) THEN rem
    ELSE DivideBytes(buf, p + 1, PolyMod(BitsOf(buf[p], 8), 1, rem))

\* CRC-8/DVB-S2 (polynomial 0xd5, initial value 0, not reflected, no final
\* xor) by long division of the message times x^8
Crc8DvbS2(bytes) == PolyMod(BitsOf(0, 8), 1, DivideBytes(bytes, 1, 0))

\* '<', '>' and '!'
DirectionChar(d) ==
    IF d = "Request" THEN 60 ELSE IF d = "Response" THEN 62 ELSE 33

\* {V2, Request, flag = 0, function = 100, no payload} of type MspIdent
IdentRequest ==
    [version |-> "V2", direction |-> "Request", flag |-> Some(0),
     function |-> ID("MspIdent"), payload |-> None]

\* 24 58 3c 00 64 00 00 00 8f
IdentRequestBytes == <<36, 88, 60, 0, 100, 0, 0, 0, 143>>

\* C20: encode of a V2 frame writes '$', 'X', the direction character, the
\* flag, the function as little-endian u16, the payload length as
\* little-endian u16, the payload, and one CRC-8/DVB-S2 byte over the bytes
\* from the flag to the end of the payload; {V2, Request, flag 0, function
\* 100, no payload} encodes to 24 58 3c 00 64 00 00 00 8f, and decode of
\* those bytes returns an equal frame.
C20_V2Layout ==
    (cpc \in {"encoded", "decoded"} /\ noise.kind = "none" /\ cframe.version = "V2") =>
        LET payload == IF cframe.payload = None THEN <<>>
                       ELSE PayloadEncode(ptype, Unwrap(cframe.payload))
            fields == << IF cframe.flag = None THEN 0 ELSE Unwrap(cframe.flag),
                         cframe.function % 256, cframe.function \div 256,
                         Len(payload) % 256, Len(payload) \div 256 >> \o payload
        IN  /\ wire = << 36, 88, DirectionChar(cframe.direction) >> \o fields
                        \o << Crc8DvbS2(fields) >>
            /\ (ptype = "MspIdent" /\ cframe = IdentRequest) =>
                  /\ wire = IdentRequestBytes
                  /\ cpc = "decoded" =>
                        /\ cres = Some(decode(ptype, IdentRequestBytes))
                        /\ Unwrap(cres).ok
                        /\ Unwrap(cres).message = IdentRequest

\* the request for MspIdent was encoded to the nine bytes and decoded back
C20_Witness ==
    /\ cpc = "decoded"
    /\ noise.kind = "none"
    /\ ptype = "MspIdent"
    /\ cframe = IdentRequest
    /\ wire = IdentRequestBytes
    /\ cres # None

(***************************************************************************)
(* Claims about decode errors, checked under CodecSpec                     *)
(***************************************************************************)
\* the payload length a V2 stream declares in its header
DeclaredLength(r) == GetU16(r, 7)

\* C21: decode returns no frame for a stream whose declared payload length
\* is neither SIZE of the expected payload type nor 0: whenever decode
\* returned a frame for a V2 stream, the stream declared SIZE or 0.
C21_LengthMismatchRejected ==
    (cpc = "decoded" /\ noise.kind \in {"none", "flip"} /\ cframe.version = "V2"
        /\ Unwrap(cres).ok)
        => DeclaredLength(wire) \in {0, SIZE(ptype)}

\* C22: a frame with an unknown version byte, an unknown direction byte or
\* a wrong checksum byte makes decode return an error, and the next call of
\* decode returns the valid frame that follows it on the stream.
C22_ErrorThenNextFrame ==
    (cpc = "decoded again" /\ DecodedClean.ok)
        => /\ ~decode(ptype, wire).ok
           /\ Unwrap(cres).ok
           /\ Unwrap(cres).message = DecodedClean.message

(***************************************************************************)
(* DispatchSpec: main and event_loop as in Spec, the receive worker        *)
(* handing over one result of each kind the loop tells apart: a message    *)
(* it ignores, a MESSAGE_INTERVAL that stops the attitude stream, one for  *)
(* an id without generator, and an I/O error of the transport.             *)
(***************************************************************************)
DispatchInbound ==
    {[ok |-> TRUE, kind |-> "HEARTBEAT", message_id |-> 0, interval_us |-> 0],
     [ok |-> FALSE, kind |-> "IoError", message_id |-> 0, interval_us |-> 0]}
    \cup {[ok |-> TRUE, kind |-> "MESSAGE_INTERVAL", message_id |-> id,
           interval_us |-> Million] : id \in UnsupportedIds}
    \cup {[ok |-> TRUE, kind |-> "MESSAGE_INTERVAL", message_id |-> AttitudeId,
           interval_us |-> -1]}

DispatchNext ==
    \/ StartupSerial
    \/ StartupSerialFail
    \/ StartupIdent
    \/ StartupIdentFail
    \/ StartupMav
    \/ StartupMavFail
    \/ StartupHeartbeat
    \/ StartupDebugInsert
    \/ LoopTick
    \/ \E id \in Generators \cup UnsupportedIds : LoopSend(id)
    \/ \E id \in Generators \cup UnsupportedIds : LoopGenError(id)
    \/ \E id \in Generators \cup UnsupportedIds : LoopNoGenerator(id)
    \/ LoopHandle
    \/ LoopWouldBlock
    \/ LoopRecvError
    \/ MainRestart
    \/ \E res \in DispatchInbound : WorkerRecv(res)

DispatchSpec == LoopInit /\ [][DispatchNext]_vars

\* C23: an iteration whose recv_timeout returned WouldBlock leaves the
\* schedule as it was, sends nothing and the loop goes on; an iteration
\* that got another I/O error from recv ends the loop: event_loop returns
\* to main, and the only thing main does then is to call event_loop again.
C23_WouldBlockContinuesErrorExits ==
    [][ /\ (iter'.kind = "wouldblock") => (time' = time /\ pc' = "loop")
        /\ (iter'.kind = "recverror") => pc' \in {"returned", "start"}
        /\ (pc = "returned") => pc' \in {"returned", "start"}
      ]_vars

\* the loop got an I/O error, returned, and main has called event_loop again
C23_Witness ==
    /\ iter.kind = "recverror"
    /\ pc = "start"
    /\ workers = 1

(***************************************************************************)
(* AdapterSpec: one WrappedMAVConnection (src/src/mavlink.rs) from its     *)
(* construction on: the receive worker, the channel, and the calls of      *)
(* recv_timeout and send made by the thread that owns the connection.      *)
(***************************************************************************)
\* results mavconn.recv() returns during the run
MaxResults == 3

\* values of Config.mavlink_system_id (a u8)
SystemIds == {0, 1, 2, 255}

\* system_id of MavHeader::default(), the header send_default writes: a
\* constant of the transport library, the same for every Config
DefaultSystemId == 255

\* what mavconn.recv() returns: two messages and an I/O error
AdapterResults ==
    {[ok |-> TRUE, kind |-> "HEARTBEAT"],
     [ok |-> TRUE, kind |-> "DATA_STREAM"],
     [ok |-> FALSE, kind |-> "IoError"]}

\* a channel that hands over the newest item first
EnqueueFront(q, x) == <<x>> \o q

\* tx.send(x) on the channel of mpsc::channel(): never blocks, first in
\* first out
Enqueue(q, x) == Append(q, x)

\* WrappedMAVConnection::new has returned: the worker runs, nothing queued
AdapterInit ==
    /\ conf \in {Some([mavlink_system_id |-> id]) : id \in SystemIds}
    /\ obtained = <<>>
    /\ delivered = <<>>
    /\ chan = <<>>
    /\ workers = 1
    /\ pc = "open"
    /\ iter = NoIter
    /\ last_frame = 0
    /\ behind = 0
    /\ SchedIdle /\ TypeIdle /\ PayloadIdle /\ CodecIdle /\ NextIdle

\* the worker's loop: tx.send(mavconn.recv())
AdapterWorker(res) ==
    /\ workers = 1
    /\ Len(obtained) < MaxResults
    /\ obtained' = Append(obtained, res)
    /\ chan' = Enqueue(chan, res)
    /\ UNCHANGED <<conf, delivered, workers, pc, iter, last_frame, behind,
                   schedVars, ptype, payloadVars, codecVars, nextVars>>

\* the worker thread ends (mavconn.recv() panics): tx is dropped
AdapterWorkerExit ==
    /\ workers = 1
    /\ workers' = 0
    /\ UNCHANGED <<conf, obtained, delivered, chan, pc, iter, last_frame, behind,
                   schedVars, ptype, payloadVars, codecVars, nextVars>>

\* recv_timeout: rx.recv_timeout returns Ok(mav_response)
RecvTimeoutOk ==
    /\ pc = "open"
    /\ chan # <<>>
    /\ chan' = Tail(chan)
    /\ delivered' = Append(delivered, Head(chan))
    /\ iter' = [kind |-> "recv_timeout", result |-> "Ok"]
    /\ UNCHANGED <<conf, obtained, workers, pc, last_frame, behind,
                   schedVars, ptype, payloadVars, codecVars, nextVars>>

\* recv_timeout: Err(RecvTimeoutError::Timeout) becomes WouldBlock
RecvTimeoutWouldBlock ==
    /\ pc = "open"
    /\ chan = <<>>
    /\ workers = 1
    /\ iter' = [kind |-> "recv_timeout", result |-> "WouldBlock"]
    /\ UNCHANGED <<conf, obtained, delivered, chan, workers, pc, last_frame, behind,
                   schedVars, ptype, payloadVars, codecVars, nextVars>>

\* recv_timeout: Err(RecvTimeoutError::Disconnected): error! and panic!()
RecvTimeoutDisconnected ==
    /\ pc = "open"
    /\ chan = <<>>
    /\ workers = 0
    /\ iter' = [kind |-> "recv_timeout", result |-> "panic"]
    /\ pc' = "panicked"
    /\ UNCHANGED <<conf, obtained, delivered, chan, workers, last_frame, behind,
                   schedVars, ptype, payloadVars, codecVars, nextVars>>

\* send: self.conn.send_default(data)
AdapterSend ==
    /\ pc = "open"
    /\ iter' = [kind |-> "send_default", header |-> [system_id |-> DefaultSystemId]]
    /\ UNCHANGED <<conf, obtained, delivered, chan, workers, pc, last_frame, behind,
                   schedVars, ptype, payloadVars, codecVars, nextVars>>

AdapterNext ==
    \/ \E res \in AdapterResults : AdapterWorker(res)
    \/ AdapterWorkerExit
    \/ RecvTimeoutOk
    \/ RecvTimeoutWouldBlock
    \/ RecvTimeoutDisconnected
    \/ AdapterSend

AdapterSpec == AdapterInit /\ [][AdapterNext]_vars

\* C24: a call of recv_timeout that finds nothing queued returns to its
\* caller: WouldBlock when the worker runs, a FatalTransport error value
\* when the worker has exited; the caller is not aborted.
C24_RecvTimeoutReturns ==
    [][ (iter'.kind = "recv_timeout" /\ iter' # iter /\ chan = <<>>)
            => /\ pc' = "open"
               /\ iter'.result = IF workers = 1 THEN "WouldBlock" ELSE "FatalTransport"
      ]_vars

\* C25: the queue respects a fixed capacity, the worker waiting in send
\* while it is full.  Checked for every capacity smaller than the number of
\* results the worker obtains in the run.
C25_BackPressure == Len(chan) <= MaxResults - 1

C27_ConfiguredSystemId ==
    (iter.kind = "send_default")
        => iter.header.system_id = Unwrap(conf).mavlink_system_id

(***************************************************************************)
(* Claims about startup, threads and the shape of an iteration, checked    *)
(* under DispatchSpec                                                      *)
(***************************************************************************)
\* C28: the loop is entered only after, in this order, the serial port was
\* opened and cleared, the MspIdent request was answered, the MAVLink
\* transport was opened and the heartbeat was inserted at 1 Hz; a failed
\* handshake ends the run: the transport is not opened (no worker is
\* spawned), nothing is sent and the loop is not entered.
C28_StartupOrder ==
    [][ /\ (pc' = "serial" /\ pc # "serial") => pc = "start"
        /\ (pc' = "ident" /\ pc # "ident") => pc = "serial"
        /\ (pc' = "mav" /\ pc # "mav") => pc = "ident"
        /\ (pc' = "sched" /\ pc # "sched") =>
              (pc = "mav" /\ workers >= 1 /\ count(time', HeartbeatId) = 1)
        /\ (pc' = "loop" /\ pc # "loop") =>
              (pc = "sched" /\ count(time', HeartbeatId) = 1)
        /\ (pc = "serial" /\ pc' # "ident") =>
              (pc' = "panicked" /\ workers' = workers /\ iter' = iter)
        /\ pc # "panicked"
      ]_vars

\* the loop was entered with the heartbeat in one slot and one worker
C28_Witness ==
    /\ pc = "loop"
    /\ workers = 1
    /\ count(time, HeartbeatId) = 1
    /\ iter.kind = "sent"
    /\ iter.id = HeartbeatId

\* C29: while a MAVLink connection is open, also after main has restarted
\* event_loop, exactly one helper thread calls the blocking recv.
C29_OneWorker == (pc \in {"mav", "sched", "loop"}) => workers = 1

\* the loop ran an iteration: the clock did not advance, the queue did not
\* grow
IterationStep ==
    /\ pc = "loop"
    /\ behind' <= behind
    /\ Len(chan') <= Len(chan)

C31_NoGeneratorOnlyWarns ==
    [][ IterationStep =>
            LET n == ScheduleNext(time, last_frame, behind)
            IN  (n.task # None /\ Unwrap(n.task) \notin Generators) =>
                    /\ iter' = [kind |-> "nogenerator", id |-> Unwrap(n.task)]
                    /\ pc' = "loop"
                    /\ time' = time
                    /\ chan' = chan
                    /\ workers' = workers
      ]_vars

\* the slot of an unsupported id came up, and the loop is still running
\* with that id in its schedule
C31_Witness ==
    /\ pc = "loop"
    /\ iter.kind = "nogenerator"
    /\ iter.id \in UnsupportedIds
    /\ count(time, iter.id) > 0

\* an insert with frequency >= 1 returned Ok
InsertedOk ==
    /\ call'.op = "insert"
    /\ call'.frequency >= 1
    /\ call'.result = "Ok"

\* the slots the insert stored into
SlotsWritten == {j \in DOMAIN time : time'[j] # time[j]}

\* the rotations under which no slot the pattern marks is occupied, the
\* pattern read at (j + tau) mod N
FitsAhead(t, pattern) ==
    {tau \in DOMAIN t :
        \A j \in DOMAIN t : pattern[(j + tau) % SLen(t)] = 1 => t[j] = None}

\* the same with the pattern read at (j - tau) mod N
FitsBehind(t, pattern) ==
    {tau \in DOMAIN t :
        \A j \in DOMAIN t :
            pattern[(j + SLen(t) - tau) % SLen(t)] = 1 => t[j] = None}

\* C32 as stated: a successful insert writes exactly the slots j with
\* P[(j - tau) mod N] = 1, tau the smallest rotation in [0, N) whose
\* collision count, taken with P[(j - tau) mod N], is 0.
C32_PlacementBehind ==
    [][ InsertedOk =>
            LET P == NewSchedule(SLen(time), call'.frequency)
                fits == FitsBehind(time, P)
            IN  /\ fits # {}
                /\ SlotsWritten =
                       {j \in DOMAIN time :
                           P[(j + SLen(time) - Least(fits)) % SLen(time)] = 1}
      ]_vars

\* C32, amended: a successful insert writes exactly the slots j with
\* P[(j + tau) mod N] = 1, tau the smallest rotation in [0, N) whose
\* collision count, taken with P[(j + tau) mod N], is 0: the scan and the
\* commit read the pattern tau places ahead of the slot.
C32_PlacementAhead ==
    [][ InsertedOk =>
            LET P == NewSchedule(SLen(time), call'.frequency)
                fits == FitsAhead(time, P)
            IN  /\ fits # {}
                /\ SlotsWritten =
                       {j \in DOMAIN time :
                           P[(j + Least(fits)) % SLen(time)] = 1}
      ]_vars

\* slot 0 was taken, a task of frequency 1 was inserted and went to the
\* last slot, not to slot 1
C32_Witness ==
    /\ call.op = "insert"
    /\ call.frequency = 1
    /\ call.result = "Ok"
    /\ time[0] # None /\ time[0] # Some(call.task)
    /\ time[1] = None
    /\ time[SchedSize - 1] = Some(call.task)

(***************************************************************************)
(* FetchSpec: MspMessage::fetch on a connection to a flight controller     *)
(* (src/src/msp.rs).  The peer has put one reply frame on the stream,      *)
(* of either protocol version, any direction, with the function id and     *)
(* the payload of one of the types the bridge fetches; more bytes may      *)
(* follow it.  cframe is the peer's frame (payload: its bytes, <<>> for    *)
(* none), wire the bytes the connection delivers, noise what follows the   *)
(* frame.                                                                  *)
(***************************************************************************)
\* the payload types core.rs fetches with a six- or seven-byte payload
FetchTypes == {"MspIdent", "MspAttitude"}

\* payload bytes a reply carries: none, or a payload of one of the types
PeerPayloads ==
    {<<>>} \cup UNION {{PayloadEncode(t, v) : v \in FramePayloads(t)} : t \in FetchTypes}

\* the frames the peer replies with
PeerFrames ==
    [ version : {"V1", "V2"},
      direction : {"Request", "Response", "Error"},
      function : {ID(t) : t \in FetchTypes},
      payload : PeerPayloads ]

\* an MSPv2 frame on the wire: '$', 'X', direction, flag, function and
\* payload length as two little-endian bytes each, the payload, and the
\* CRC-8/DVB-S2 of the bytes from the flag on
PeerV2Bytes(m) ==
    LET body == << 0, m.function % 256, m.function \div 256,
                   Len(m.payload) % 256, Len(m.payload) \div 256 >> \o m.payload
    IN  << Dollar, 88, DirectionChar(m.direction) >> \o body \o << Crc8DvbS2(body) >>

\* an MSPv1 frame on the wire: '$', 'M', direction, a one-byte function, a
\* one-byte length (below 255), the payload, and the XOR of the bytes from
\* the length byte through the end of the payload
PeerV1Bytes(m) ==
    LET summed == << Len(m.payload) >> \o m.payload
    IN  << Dollar, 77, DirectionChar(m.direction), m.function >> \o summed
            \o << XorAll(summed, 1) >>

PeerBytes(m) == IF m.version = "V1" THEN PeerV1Bytes(m) ELSE PeerV2Bytes(m)

\* the message fetch builds for payload type P
FetchMessage(name) ==
    [version |-> "V2", direction |-> "Request", flag |-> None,
     function |-> ID(name), payload |-> None]

\* MspMessage::request on a connection whose read side holds r: the bytes
\* written and the result of decode
request(name, m, r) == [sent |-> encode(name, m), response |-> decode(name, r)]

\* MspMessage::fetch: Ok(p) for a response with Some(p), the error of
\* decode, or "received empty MSP payload"
fetch(name, r) ==
    LET q == request(name, FetchMessage(name), r)
    IN  IF ~q.response.ok
        THEN [ok |-> FALSE, err |-> q.response.err, payload |-> None,
              sent |-> q.sent, response |-> q.response]
        ELSE IF q.response.message.payload = None
        THEN [ok |-> FALSE, err |-> "EmptyPayload", payload |-> None,
              sent |-> q.sent, response |-> q.response]
        ELSE [ok |-> TRUE, err |-> "", payload |-> q.response.message.payload,
              sent |-> q.sent, response |-> q.response]

\* what may follow the reply on the stream: the byte 0x25, a '$', or the
\* next response of the requested type
Trailing(name) ==
    {<<37>>, <<Dollar>>,
     PeerV2Bytes([version |-> "V2", direction |-> "Response", function |-> ID(name),
                  payload |-> PayloadEncode(name,
                      [k \in 1..Len(Registry[name].fields) |->
                          SampleValues(Registry[name].fields[k])[2]])])}

FetchInit ==
    /\ SchedIdle /\ PayloadIdle /\ LoopIdle /\ NextIdle /\ AdapterIdle
    /\ ptype \in FetchTypes
    /\ cframe \in PeerFrames
    /\ wire = <<>>
    /\ noise = [kind |-> "none"]
    /\ cpc = "open"
    /\ cres = None

\* the peer's reply arrives
PeerReply ==
    /\ cpc = "open"
    /\ wire' = PeerBytes(cframe)
    /\ cpc' = "replied"
    /\ UNCHANGED <<ptype, cframe, noise, cres, schedVars, payloadVars, loopVars, nextVars, adapterVars>>

\* more bytes arrive behind the reply
PeerTrailing(t) ==
    /\ cpc = "replied"
    /\ noise.kind = "none"
    /\ wire' = wire \o t
    /\ noise' = [kind |-> "trailing", bytes |-> t]
    /\ UNCHANGED <<ptype, cframe, cpc, cres, schedVars, payloadVars, loopVars, nextVars, adapterVars>>

\* MspMessage::fetch(&mut conn) for payload type ptype
Fetch ==
    /\ cpc = "replied"
    /\ cres' = Some(fetch(ptype, wire))
    /\ cpc' = "fetched"
    /\ UNCHANGED <<ptype, cframe, wire, noise, schedVars, payloadVars, loopVars, nextVars, adapterVars>>

\* the next fetch on the same connection, which stands where the first
\* one stopped reading
FetchAgain ==
    /\ cpc = "fetched"
    /\ noise.kind = "trailing"
    /\ cres' = Some(fetch(ptype, SubSeq(wire, Unwrap(cres).response.pos, Len(wire))))
    /\ cpc' = "fetched again"
    /\ UNCHANGED <<ptype, cframe, wire, noise, schedVars, payloadVars, loopVars, nextVars, adapterVars>>

FetchNext ==
    \/ PeerReply
    \/ \E t \in Trailing(ptype) : PeerTrailing(t)
    \/ Fetch
    \/ FetchAgain

FetchSpec == FetchInit /\ [][FetchNext]_vars

\* C33: decode of an MSPv1 frame (function byte, length byte, that many
\* payload bytes, then the XOR of the bytes from the length byte through
\* the payload) accepts the frame: it returns a V1 message with the
\* frame's direction and function and no flag, and has read the frame up
\* to its checksum byte.
C33_V1Decode ==
    (cpc = "fetched" /\ cframe.version = "V1") =>
        LET d == Unwrap(cres).response
        IN  /\ d.ok
            /\ d.message.version = "V1"
            /\ d.message.direction = cframe.direction
            /\ d.message.function = cframe.function
            /\ d.message.flag = None
            /\ d.pos = Len(PeerV1Bytes(cframe)) + 1

\* the next response of the requested type follows the reply
NextResponseFollows == noise.kind = "trailing" /\ Len(noise.bytes) > 1

\* C34: a decode call reads the stream up to and including the checksum
\* byte of the first frame on it and no further; what follows the frame
\* stays on the stream, so that a response that follows is what the next
\* request decodes.
C34_ConsumesOneFrame ==
    /\ (cpc = "fetched") =>
           Unwrap(cres).response.pos = Len(PeerBytes(cframe)) + 1
    /\ (cpc = "fetched again" /\ NextResponseFollows) =>
           /\ Unwrap(cres).ok
           /\ encode(ptype, Unwrap(cres).response.message) = noise.bytes

(***************************************************************************)
(* HeartbeatSpec: main and event_loop as in DispatchSpec, the GCS also     *)
(* sending MESSAGE_INTERVAL requests that name the heartbeat, message id   *)
(* 0: one for 1 Hz and one for 0.5 Hz.                                     *)
(***************************************************************************)
HeartbeatInbound ==
    DispatchInbound
    \cup {[ok |-> TRUE, kind |-> "MESSAGE_INTERVAL", message_id |-> HeartbeatId,
           interval_us |-> us] : us \in {Million, 2 * Million}}

HeartbeatNext ==
    \/ StartupSerial
    \/ StartupSerialFail
    \/ StartupIdent
    \/ StartupIdentFail
    \/ StartupMav
    \/ StartupMavFail
    \/ StartupHeartbeat
    \/ StartupDebugInsert
    \/ LoopTick
    \/ \E id \in Generators \cup UnsupportedIds : LoopSend(id)
    \/ \E id \in Generators \cup UnsupportedIds : LoopGenError(id)
    \/ \E id \in Generators \cup UnsupportedIds : LoopNoGenerator(id)
    \/ LoopHandle
    \/ LoopWouldBlock
    \/ LoopRecvError
    \/ MainRestart
    \/ \E res \in HeartbeatInbound : WorkerRecv(res)

HeartbeatSpec == LoopInit /\ [][HeartbeatNext]_vars

\* C35: while event_loop is in its loop the heartbeat task, id 0, holds
\* exactly one slot of the schedule, whatever MAVLink messages came in.
C35_OneHeartbeatSlot == (pc = "loop") => count(time, HeartbeatId) = 1

\* C36: fetch for payload type P returns Ok(payload) only when the frame
\* received in reply is a Response whose function id is P::ID.
C36_OnlyRequestedResponse ==
    (cpc = "fetched" /\ Unwrap(cres).ok) =>
        /\ cframe.direction = "Response"
        /\ cframe.function = ID(ptype)
        /\ Unwrap(cres).response.message.direction = "Response"
        /\ Unwrap(cres).response.message.function = ID(ptype)

(***************************************************************************)
(* AttitudeSpec: the ATTITUDE generator (src/src/translator.rs) on a       *)
(* connection on which the flight controller has answered the MspAttitude  *)
(* request.  porig is the attitude the flight controller reports, <<>>     *)
(* when its response carries no payload.  An angle of the MAVLink message  *)
(* is held in microradians.                                                *)
(***************************************************************************)
\* values of an i16 field: both ends of the range, their neighbours, zero
\* and its neighbours
AttitudeSamples == {-32768, -32767, -1, 0, 1, 32767}

\* -x on an i16: the value, or overflow for i16::MIN
NegI16(x) ==
    IF x = -32768 THEN [overflow |-> TRUE, value |-> -32768]
    ELSE [overflow |-> FALSE, value |-> -x]

\* (x as f64 / d).to_radians() as f32 for an integer x and d in {1, 10}, in
\* microradians (17453 to the degree), rounded towards zero
MicroRadians(x, d) ==
    IF x < 0 THEN -(((-x) * 17453) \div d) ELSE (x * 17453) \div d

\* translator::attitude with the read side of mspconn holding r; checks
\* tells whether the build panics on integer overflow (debug) or wraps
\* (release)
attitude(r, checks) ==
    LET f == fetch("MspAttitude", r)
    IN  IF ~f.ok THEN [kind |-> "err", err |-> f.err]
        ELSE LET payload == Unwrap(f.payload)
                 neg == NegI16(payload[2])
             IN  IF neg.overflow /\ checks THEN [kind |-> "panic"]
                 ELSE [kind |-> "ok",
                       message |-> [roll |-> MicroRadians(payload[1], 10),
                                    pitch |-> MicroRadians(neg.value, 10),
                                    yaw |-> MicroRadians(payload[3], 1)]]

AttitudeInit ==
    /\ SchedIdle /\ LoopIdle /\ NextIdle /\ AdapterIdle
    /\ ptype = "MspAttitude"
    /\ porig \in {<<>>} \cup (AttitudeSamples \X AttitudeSamples \X AttitudeSamples)
    /\ pval = None
    /\ pbytes = None
    /\ pdone = 0
    /\ cframe = [version |-> "V2", direction |-> "Response", function |-> ID(ptype),
                 payload |-> IF porig = <<>> THEN <<>> ELSE PayloadEncode(ptype, porig)]
    /\ wire = <<>>
    /\ noise = [kind |-> "none"]
    /\ cpc = "open"
    /\ cres = None

\* generator(&conf, &mut mspconn, None) for task 30
AttitudeGenerate(checks) ==
    /\ cpc = "replied"
    /\ cres' = Some(attitude(wire, checks))
    /\ cpc' = "generated"
    /\ UNCHANGED <<ptype, cframe, wire, noise, schedVars, payloadVars, loopVars, nextVars, adapterVars>>

AttitudeNext ==
    \/ PeerReply
    \/ \E checks \in BOOLEAN : AttitudeGenerate(checks)

AttitudeSpec == AttitudeInit /\ [][AttitudeNext]_vars

\* -1, 0 or 1
SignOf(x) == IF x < 0 THEN -1 ELSE IF x > 0 THEN 1 ELSE 0

\* C37: for every angy the flight controller reports, i16::MIN included,
\* the ATTITUDE generator returns a message (no overflow) whose pitch has
\* the sign opposite to that of angy.
C37_PitchNegated ==
    (cpc = "generated" /\ porig # <<>>) =>
        /\ Unwrap(cres).kind = "ok"
        /\ SignOf(Unwrap(cres).message.pitch) = -SignOf(porig[2])

====
